---- MODULE Spec2Model ----
(***************************************************************************)
(* AI Castle: the tick-resolution engine (GameEngine, src/v0/src/engine.ts) *)
(* as a state machine.  One action per public method of the engine; a tick *)
(* is one atomic step (the engine is single-threaded and tick() never      *)
(* yields), and lastCall, the record of the most recent call, keeps what   *)
(* the call was given (the state and the queue at a tick), the state after *)
(* each step of a tick, the log records and the return value.              *)
(***************************************************************************)
EXTENDS Integers, Sequences, FiniteSets, TLC

(***************************************************************************)
(* Bounds of the exploration.                                              *)
(***************************************************************************)
MaxTurn == 2
MaxQueue == 2
\* one inter-tick window with a longer queue (SpecWindow)
WindowTurns == 1
WindowQueue == 3
\* ticks and queue length of the provenance-tagged runs (SpecLog)
LogTurns == 2
LogQueue == 2
\* ticks and queue length of the runs from an initialState (SpecCastle)
CastleTurns == 1
CastleQueue == 2
\* SpecCoast: an engine left to tick from its default state
CoastTurns == 14
CoastQueue == 1
\* the longest remaining construction, in ticks, that is followed to its end
Horizon == 2
\* ticks and queue length of the runs inside the server's event loop
\* (SpecServer)
ServerTurns == 2
ServerQueue == 1

(***************************************************************************)
(* JavaScript numbers that reach the engine as action parameters.  A       *)
(* number is n + frac/2: frac = 0 for an integer, frac = 1 for a           *)
(* non-integer (n + 0.5).                                                  *)
(***************************************************************************)
Num(k) == [n |-> k, frac |-> 0]
Frac(k) == [n |-> k, frac |-> 1]
IsInteger(x) == x.frac = 0
Negative(x) == x.n < 0
Val(x) == x.n

(***************************************************************************)
(* Economy constants of the engine.                                        *)
(***************************************************************************)
HireCost == 5
UpgradeGoldFactor == 10
UpgradeWoodFactor == 12
MinerGold == 2
FarmerFood == 3
LumberjackWood == 1
CompletionBonus == 5
TaxRate == 1
UnknownPriority == 999

(***************************************************************************)
(* GameEngine.constructor: the default starting state.                     *)
(***************************************************************************)
\* mutant: the default allocation has a second farmer in place of a miner
DefaultState_TwoFarmers ==
  [turn |-> 0, gold |-> 25, food |-> 18, wood |-> 0, workers |-> 5,
   castleLevel |-> 0,
   jobs |-> [miners |-> 1, farmers |-> 2, lumberjacks |-> 1, builders |-> 0],
   upgradeInProgress |-> [active |-> FALSE]]

DefaultState ==
  [turn |-> 0, gold |-> 25, food |-> 18, wood |-> 0, workers |-> 5,
   castleLevel |-> 0,
   jobs |-> [miners |-> 2, farmers |-> 1, lumberjacks |-> 1, builders |-> 0],
   upgradeInProgress |-> [active |-> FALSE]]

VARIABLES state, actionQueue, tickInterval, autoTickEnabled, liveTimers,
          tickFrame, lastCall

vars == <<state, actionQueue, tickInterval, autoTickEnabled, liveTimers,
         tickFrame, lastCall>>

(***************************************************************************)
(* The actions callers submit.                                             *)
(***************************************************************************)
AssignJobs(m, f, l, b) ==
  [type |-> "AssignJobs",
   params |-> [miners |-> m, farmers |-> f, lumberjacks |-> l, builders |-> b]]
Hire(c) == [type |-> "Hire", params |-> [count |-> c]]
Fire(c) == [type |-> "Fire", params |-> [count |-> c]]
BuyFood(a) == [type |-> "BuyFood", params |-> [amount |-> a]]
NoParams == [k \in {} |-> 0]
StartUpgrade == [type |-> "StartUpgrade", params |-> NoParams]
UnknownAction == [type |-> "Teleport", params |-> [count |-> Num(1)]]

JobSum(j) == j.miners + j.farmers + j.lumberjacks + j.builders
\* mutant: the builders are left out of the sum
ParamSum_NoBuilders(p) == Val(p.miners) + Val(p.farmers) + Val(p.lumberjacks)

ParamSum(p) == Val(p.miners) + Val(p.farmers) + Val(p.lumberjacks) + Val(p.builders)

(***************************************************************************)
(* validateActionParams: the admission (syntactic) check.                  *)
(***************************************************************************)
\* mutant: the admission check also wants the counts to sum to workers
validateAssignJobsParams_SumChecked(p) ==
  IF Negative(p.miners) \/ Negative(p.farmers)
       \/ Negative(p.lumberjacks) \/ Negative(p.builders)
  THEN [valid |-> FALSE, error |-> [msg |-> "Job counts must be non-negative integers"]]
  ELSE IF ~IsInteger(p.miners) \/ ~IsInteger(p.farmers)
            \/ ~IsInteger(p.lumberjacks) \/ ~IsInteger(p.builders)
  THEN [valid |-> FALSE, error |-> [msg |-> "Job counts must be integers"]]
  ELSE IF ParamSum(p) # state.workers
  THEN [valid |-> FALSE, error |-> [msg |-> "Job counts must sum to workers"]]
  ELSE [valid |-> TRUE]

\* case 'AssignJobs' of validateActionParams
validateAssignJobsParams(p) ==
  IF Negative(p.miners) \/ Negative(p.farmers)
       \/ Negative(p.lumberjacks) \/ Negative(p.builders)
  THEN [valid |-> FALSE, error |-> [msg |-> "Job counts must be non-negative integers"]]
  ELSE IF ~IsInteger(p.miners) \/ ~IsInteger(p.farmers)
            \/ ~IsInteger(p.lumberjacks) \/ ~IsInteger(p.builders)
  THEN [valid |-> FALSE, error |-> [msg |-> "Job counts must be integers"]]
  ELSE [valid |-> TRUE]

validateActionParams(action) ==
  CASE action.type = "AssignJobs" -> validateAssignJobsParams(action.params)
    [] action.type = "Hire" ->
         IF Negative(action.params.count) \/ ~IsInteger(action.params.count)
         THEN [valid |-> FALSE, error |-> [msg |-> "Hire count must be a non-negative integer"]]
         ELSE [valid |-> TRUE]
    [] action.type = "Fire" ->
         IF Negative(action.params.count) \/ ~IsInteger(action.params.count)
         THEN [valid |-> FALSE, error |-> [msg |-> "Fire count must be a non-negative integer"]]
         ELSE [valid |-> TRUE]
    [] action.type = "BuyFood" ->
         IF Negative(action.params.amount) \/ ~IsInteger(action.params.amount)
         THEN [valid |-> FALSE, error |-> [msg |-> "Buy food amount must be a non-negative integer"]]
         ELSE [valid |-> TRUE]
    [] action.type = "StartUpgrade" -> [valid |-> TRUE]
    [] OTHER -> [valid |-> FALSE,
                 error |-> [msg |-> "Unknown action type", type |-> action.type]]

(***************************************************************************)
(* sortActionQueue: Array.prototype.sort with the comparator               *)
(* priorityA - priorityB; the sort is stable, so an element goes behind    *)
(* every element whose priority is not larger.                             *)
(***************************************************************************)
\* mutant: AssignJobs ahead of Hire and Fire
priorityMap_AssignFirst(type) ==
  CASE type = "AssignJobs" -> 1
    [] type = "Hire" -> 2
    [] type = "Fire" -> 2
    [] type = "StartUpgrade" -> 3
    [] type = "BuyFood" -> 4
    [] OTHER -> UnknownPriority

\* mutant: BuyFood is applied first
priorityMap_BuyFoodFirst(type) ==
  CASE type = "Hire" -> 1
    [] type = "Fire" -> 1
    [] type = "AssignJobs" -> 2
    [] type = "StartUpgrade" -> 3
    [] type = "BuyFood" -> 0
    [] OTHER -> UnknownPriority

priorityMap(type) ==
  CASE type = "Hire" -> 1
    [] type = "Fire" -> 1
    [] type = "AssignJobs" -> 2
    [] type = "StartUpgrade" -> 3
    [] type = "BuyFood" -> 4
    [] OTHER -> UnknownPriority

\* mutant: an element goes in front of the elements of its own priority
RECURSIVE InsertByPriority_Unstable(_, _)
InsertByPriority_Unstable(sorted, a) ==
  IF sorted = <<>> THEN <<a>>
  ELSE IF priorityMap(Head(sorted).type) - priorityMap(a.type) < 0
       THEN <<Head(sorted)>> \o InsertByPriority_Unstable(Tail(sorted), a)
       ELSE <<a>> \o sorted

\* mutant: within one priority, an action that names its requester goes
\* in front of the actions that do not
RECURSIVE InsertByPriority_RequesterFirst(_, _)
InsertByPriority_RequesterFirst(sorted, a) ==
  IF sorted = <<>> THEN <<a>>
  ELSE IF \/ priorityMap(Head(sorted).type) - priorityMap(a.type) < 0
          \/ /\ priorityMap(Head(sorted).type) - priorityMap(a.type) = 0
             /\ ~( /\ "requestedBy" \in DOMAIN a
                   /\ "requestedBy" \notin DOMAIN Head(sorted) )
       THEN <<Head(sorted)>> \o InsertByPriority_RequesterFirst(Tail(sorted), a)
       ELSE <<a>> \o sorted

RECURSIVE InsertByPriority(_, _)
InsertByPriority(sorted, a) ==
  IF sorted = <<>> THEN <<a>>
  ELSE IF priorityMap(Head(sorted).type) - priorityMap(a.type) <= 0
       THEN <<Head(sorted)>> \o InsertByPriority(Tail(sorted), a)
       ELSE <<a>> \o sorted

RECURSIVE SortFrom(_, _)
SortFrom(sorted, rest) ==
  IF rest = <<>> THEN sorted
  ELSE SortFrom(InsertByPriority(sorted, Head(rest)), Tail(rest))

\* mutant: the queue is applied in submission order
sortActionQueue_Fifo(queue) == queue

sortActionQueue(queue) == SortFrom(<<>>, queue)

(***************************************************************************)
(* validateActionAtApplyTime: the state-dependent check, against the live  *)
(* state s.                                                                *)
(***************************************************************************)
\* mutant: the gold check alone, an active upgrade is not looked at
validateStartUpgrade_GoldOnly(s) ==
  LET cost == UpgradeGoldFactor * (s.castleLevel + 1) IN
  IF s.gold < cost
  THEN [valid |-> FALSE,
        error |-> [msg |-> "Not enough gold to start upgrade",
                   need |-> cost, have |-> s.gold]]
  ELSE [valid |-> TRUE]

\* mutant: the cost does not grow with the castle level
validateStartUpgrade_FlatCost(s) ==
  IF s.upgradeInProgress.active
  THEN [valid |-> FALSE,
        error |-> [msg |-> "An upgrade is already in progress"]]
  ELSE LET cost == UpgradeGoldFactor IN
       IF s.gold < cost
       THEN [valid |-> FALSE,
             error |-> [msg |-> "Not enough gold to start upgrade",
                        need |-> cost, have |-> s.gold]]
       ELSE [valid |-> TRUE]

\* case 'StartUpgrade' of validateActionAtApplyTime
validateStartUpgrade(s) ==
  IF s.upgradeInProgress.active
  THEN [valid |-> FALSE,
        error |-> [msg |-> "An upgrade is already in progress"]]
  ELSE LET cost == UpgradeGoldFactor * (s.castleLevel + 1) IN
       IF s.gold < cost
       THEN [valid |-> FALSE,
             error |-> [msg |-> "Not enough gold to start upgrade",
                        need |-> cost, have |-> s.gold]]
       ELSE [valid |-> TRUE]

\* mutant: BuyFood is accepted whatever the gold
validateActionAtApplyTime_FoodOnCredit(s, action) ==
  CASE action.type = "AssignJobs" ->
         LET sum == ParamSum(action.params) IN
         IF sum # s.workers
         THEN [valid |-> FALSE,
               error |-> [msg |-> "AssignJobs sum does not match current workers",
                          sum |-> sum, workers |-> s.workers]]
         ELSE [valid |-> TRUE]
    [] action.type = "Hire" ->
         LET cost == Val(action.params.count) * HireCost IN
         IF s.gold < cost
         THEN [valid |-> FALSE,
               error |-> [msg |-> "Not enough gold to hire workers",
                          count |-> Val(action.params.count),
                          need |-> cost, have |-> s.gold]]
         ELSE [valid |-> TRUE]
    [] action.type = "Fire" ->
         IF s.workers < Val(action.params.count)
         THEN [valid |-> FALSE,
               error |-> [msg |-> "Cannot fire workers",
                          count |-> Val(action.params.count),
                          have |-> s.workers]]
         ELSE [valid |-> TRUE]
    [] action.type = "BuyFood" ->
         LET cost == Val(action.params.amount) IN
         IF FALSE
         THEN [valid |-> FALSE,
               error |-> [msg |-> "Not enough gold to buy food",
                          amount |-> Val(action.params.amount),
                          need |-> cost, have |-> s.gold]]
         ELSE [valid |-> TRUE]
    [] action.type = "StartUpgrade" -> validateStartUpgrade(s)
    [] OTHER -> [valid |-> TRUE]

validateActionAtApplyTime(s, action) ==
  CASE action.type = "AssignJobs" ->
         LET sum == ParamSum(action.params) IN
         IF sum # s.workers
         THEN [valid |-> FALSE,
               error |-> [msg |-> "AssignJobs sum does not match current workers",
                          sum |-> sum, workers |-> s.workers]]
         ELSE [valid |-> TRUE]
    [] action.type = "Hire" ->
         LET cost == Val(action.params.count) * HireCost IN
         IF s.gold < cost
         THEN [valid |-> FALSE,
               error |-> [msg |-> "Not enough gold to hire workers",
                          count |-> Val(action.params.count),
                          need |-> cost, have |-> s.gold]]
         ELSE [valid |-> TRUE]
    [] action.type = "Fire" ->
         IF s.workers < Val(action.params.count)
         THEN [valid |-> FALSE,
               error |-> [msg |-> "Cannot fire workers",
                          count |-> Val(action.params.count),
                          have |-> s.workers]]
         ELSE [valid |-> TRUE]
    [] action.type = "BuyFood" ->
         LET cost == Val(action.params.amount) IN
         IF s.gold < cost
         THEN [valid |-> FALSE,
               error |-> [msg |-> "Not enough gold to buy food",
                          amount |-> Val(action.params.amount),
                          need |-> cost, have |-> s.gold]]
         ELSE [valid |-> TRUE]
    [] action.type = "StartUpgrade" -> validateStartUpgrade(s)
    [] OTHER -> [valid |-> TRUE]

(***************************************************************************)
(* applyAction: the effect of one accepted action on the live state s.     *)
(***************************************************************************)
\* mutant: Hire adds the workers without debiting the gold
applyAction_HireUnpaid(s, action) ==
  CASE action.type = "AssignJobs" ->
         [s EXCEPT !.jobs = [miners |-> Val(action.params.miners),
                             farmers |-> Val(action.params.farmers),
                             lumberjacks |-> Val(action.params.lumberjacks),
                             builders |-> Val(action.params.builders)]]
    [] action.type = "Hire" ->
         [s EXCEPT !.workers = @ + Val(action.params.count)]
    [] action.type = "Fire" ->
         [s EXCEPT !.workers = @ - Val(action.params.count)]
    [] action.type = "BuyFood" ->
         [s EXCEPT !.gold = @ - Val(action.params.amount),
                   !.food = @ + Val(action.params.amount)]
    [] action.type = "StartUpgrade" ->
         [s EXCEPT !.gold = @ - UpgradeGoldFactor * (s.castleLevel + 1),
                   !.upgradeInProgress =
                      [active |-> TRUE,
                       target |-> s.castleLevel + 1,
                       progress |-> 0,
                       woodRequired |-> UpgradeWoodFactor * (s.castleLevel + 1)]]
    [] OTHER -> s

\* mutant: Fire also takes the fired workers out of the miners
applyAction_FireReconciles(s, action) ==
  CASE action.type = "AssignJobs" ->
         [s EXCEPT !.jobs = [miners |-> Val(action.params.miners),
                             farmers |-> Val(action.params.farmers),
                             lumberjacks |-> Val(action.params.lumberjacks),
                             builders |-> Val(action.params.builders)]]
    [] action.type = "Hire" ->
         [s EXCEPT !.gold = @ - Val(action.params.count) * HireCost,
                   !.workers = @ + Val(action.params.count)]
    [] action.type = "Fire" ->
         [s EXCEPT !.workers = @ - Val(action.params.count),
                   !.jobs.miners = IF @ >= Val(action.params.count)
                                   THEN @ - Val(action.params.count)
                                   ELSE 0]
    [] action.type = "BuyFood" ->
         [s EXCEPT !.gold = @ - Val(action.params.amount),
                   !.food = @ + Val(action.params.amount)]
    [] action.type = "StartUpgrade" ->
         [s EXCEPT !.gold = @ - UpgradeGoldFactor * (s.castleLevel + 1),
                   !.upgradeInProgress =
                      [active |-> TRUE,
                       target |-> s.castleLevel + 1,
                       progress |-> 0,
                       woodRequired |-> UpgradeWoodFactor * (s.castleLevel + 1)]]
    [] OTHER -> s

\* mutant: the upgrade is started with the current level as its target
applyAction_TargetIsCurrentLevel(s, action) ==
  CASE action.type = "AssignJobs" ->
         [s EXCEPT !.jobs = [miners |-> Val(action.params.miners),
                             farmers |-> Val(action.params.farmers),
                             lumberjacks |-> Val(action.params.lumberjacks),
                             builders |-> Val(action.params.builders)]]
    [] action.type = "Hire" ->
         [s EXCEPT !.gold = @ - Val(action.params.count) * HireCost,
                   !.workers = @ + Val(action.params.count)]
    [] action.type = "Fire" ->
         [s EXCEPT !.workers = @ - Val(action.params.count)]
    [] action.type = "BuyFood" ->
         [s EXCEPT !.gold = @ - Val(action.params.amount),
                   !.food = @ + Val(action.params.amount)]
    [] action.type = "StartUpgrade" ->
         [s EXCEPT !.gold = @ - UpgradeGoldFactor * (s.castleLevel + 1),
                   !.upgradeInProgress =
                      [active |-> TRUE,
                       target |-> s.castleLevel,
                       progress |-> 0,
                       woodRequired |-> UpgradeWoodFactor * (s.castleLevel + 1)]]
    [] OTHER -> s

applyAction(s, action) ==
  CASE action.type = "AssignJobs" ->
         [s EXCEPT !.jobs = [miners |-> Val(action.params.miners),
                             farmers |-> Val(action.params.farmers),
                             lumberjacks |-> Val(action.params.lumberjacks),
                             builders |-> Val(action.params.builders)]]
    [] action.type = "Hire" ->
         [s EXCEPT !.gold = @ - Val(action.params.count) * HireCost,
                   !.workers = @ + Val(action.params.count)]
    [] action.type = "Fire" ->
         [s EXCEPT !.workers = @ - Val(action.params.count)]
    [] action.type = "BuyFood" ->
         [s EXCEPT !.gold = @ - Val(action.params.amount),
                   !.food = @ + Val(action.params.amount)]
    [] action.type = "StartUpgrade" ->
         [s EXCEPT !.gold = @ - UpgradeGoldFactor * (s.castleLevel + 1),
                   !.upgradeInProgress =
                      [active |-> TRUE,
                       target |-> s.castleLevel + 1,
                       progress |-> 0,
                       woodRequired |-> UpgradeWoodFactor * (s.castleLevel + 1)]]
    [] OTHER -> s

(***************************************************************************)
(* applyQueuedActions: the loop over the sorted queue.  Each action is     *)
(* validated against the live state and applied at once; a rejected one is *)
(* reported through logger.logError and skipped.  The result carries the   *)
(* state after the loop, the applied-actions list, and the evaluations in  *)
(* loop order (what the logger received, one line per action).             *)
(***************************************************************************)
\* an optional field of an action: its value, or undefined when it is absent
Field(action, f) == IF f \in DOMAIN action THEN action[f] ELSE "undefined"

\* mutant: the applied entry without the provenance of the action
AppliedEntry_NoProvenance(action) ==
  [type |-> action.type, params |-> action.params,
   requested_by |-> "undefined", command_id |-> "undefined"]

AppliedEntry(action) ==
  [type |-> action.type, params |-> action.params,
   requested_by |-> Field(action, "requestedBy"),
   command_id |-> Field(action, "commandId")]

\* mutant: the loop ends at the first rejected action
RECURSIVE ApplyLoop_StopAtRejection(_, _, _, _)
ApplyLoop_StopAtRejection(s, sorted, applied, evaluated) ==
  IF sorted = <<>>
  THEN [state |-> s, applied |-> applied, evaluated |-> evaluated]
  ELSE LET queuedAction == Head(sorted)
           validationResult == validateActionAtApplyTime(s, queuedAction)
       IN IF ~validationResult.valid
          THEN [state |-> s, applied |-> applied,
                evaluated |-> Append(evaluated,
                                     [action |-> queuedAction, valid |-> FALSE,
                                      error |-> validationResult.error,
                                      after |-> s])]
          ELSE LET t == applyAction(s, queuedAction)
               IN ApplyLoop_StopAtRejection(
                            t, Tail(sorted),
                            Append(applied, AppliedEntry(queuedAction)),
                            Append(evaluated,
                                   [action |-> queuedAction, valid |-> TRUE,
                                    after |-> t]))

\* mutant: a rejected action is pushed to the applied list as well
RECURSIVE ApplyLoop_LogsRejected(_, _, _, _)
ApplyLoop_LogsRejected(s, sorted, applied, evaluated) ==
  IF sorted = <<>>
  THEN [state |-> s, applied |-> applied, evaluated |-> evaluated]
  ELSE LET queuedAction == Head(sorted)
           validationResult == validateActionAtApplyTime(s, queuedAction)
       IN IF ~validationResult.valid
          THEN ApplyLoop_LogsRejected(
                         s, Tail(sorted),
                         Append(applied, AppliedEntry(queuedAction)),
                         Append(evaluated,
                                [action |-> queuedAction, valid |-> FALSE,
                                 error |-> validationResult.error,
                                 after |-> s]))
          ELSE LET t == applyAction(s, queuedAction)
               IN ApplyLoop_LogsRejected(
                            t, Tail(sorted),
                            Append(applied, AppliedEntry(queuedAction)),
                            Append(evaluated,
                                   [action |-> queuedAction, valid |-> TRUE,
                                    after |-> t]))

RECURSIVE ApplyLoop(_, _, _, _)
ApplyLoop(s, sorted, applied, evaluated) ==
  IF sorted = <<>>
  THEN [state |-> s, applied |-> applied, evaluated |-> evaluated]
  ELSE LET queuedAction == Head(sorted)
           validationResult == validateActionAtApplyTime(s, queuedAction)
       IN IF ~validationResult.valid
          THEN ApplyLoop(s, Tail(sorted), applied,
                         Append(evaluated,
                                [action |-> queuedAction, valid |-> FALSE,
                                 error |-> validationResult.error,
                                 after |-> s]))
          ELSE LET t == applyAction(s, queuedAction)
               IN ApplyLoop(t, Tail(sorted),
                            Append(applied, AppliedEntry(queuedAction)),
                            Append(evaluated,
                                   [action |-> queuedAction, valid |-> TRUE,
                                    after |-> t]))

applyQueuedActions(s, queue) ==
  ApplyLoop(s, sortActionQueue(queue), <<>>, <<>>)

(***************************************************************************)
(* The resolution phases.                                                  *)
(***************************************************************************)
Max(a, b) == IF a >= b THEN a ELSE b
Min(a, b) == IF a <= b THEN a ELSE b
\* mutant: the half is rounded down
CeilHalf_Floor(x) == x \div 2

\* Math.ceil(x / 2) for an integer x >= 0
CeilHalf(x) == (x + 1) \div 2

applyProduction(s) ==
  [s EXCEPT !.gold = @ + s.jobs.miners * MinerGold,
            !.food = @ + s.jobs.farmers * FarmerFood,
            !.wood = @ + s.jobs.lumberjacks * LumberjackWood]

\* mutant: the builders stop once the progress has reached the requirement
RECURSIVE BuilderLoop_Capped(_, _)
BuilderLoop_Capped(s, i) ==
  IF i >= s.jobs.builders THEN s
  ELSE IF s.wood > 0
          /\ s.upgradeInProgress.progress < s.upgradeInProgress.woodRequired
       THEN BuilderLoop_Capped([s EXCEPT !.wood = @ - 1,
                                  !.upgradeInProgress.progress = @ + 1], i + 1)
       ELSE BuilderLoop_Capped(s, i + 1)

\* mutant: a builder works only while more than one wood is left
RECURSIVE BuilderLoop_KeepsOneWood(_, _)
BuilderLoop_KeepsOneWood(s, i) ==
  IF i >= s.jobs.builders THEN s
  ELSE IF s.wood > 1
       THEN BuilderLoop_KeepsOneWood([s EXCEPT !.wood = @ - 1,
                                  !.upgradeInProgress.progress = @ + 1], i + 1)
       ELSE BuilderLoop_KeepsOneWood(s, i + 1)

\* the builder loop: i runs from 0 to builders - 1
RECURSIVE BuilderLoop(_, _)
BuilderLoop(s, i) ==
  IF i >= s.jobs.builders THEN s
  ELSE IF s.wood > 0
       THEN BuilderLoop([s EXCEPT !.wood = @ - 1,
                                  !.upgradeInProgress.progress = @ + 1], i + 1)
       ELSE BuilderLoop(s, i + 1)

\* mutant: the upgrade completes only when the progress exceeds the requirement
applyConstruction_StrictThreshold(s) ==
  IF ~s.upgradeInProgress.active THEN s
  ELSE LET t == BuilderLoop(s, 0) IN
       IF t.upgradeInProgress.progress > t.upgradeInProgress.woodRequired
       THEN [t EXCEPT !.castleLevel = @ + 1,
                      !.gold = @ + CompletionBonus,
                      !.upgradeInProgress = [active |-> FALSE]]
       ELSE t

\* mutant: a completed upgrade raises the level and stays active
applyConstruction_StaysActive(s) ==
  IF ~s.upgradeInProgress.active THEN s
  ELSE LET t == BuilderLoop(s, 0) IN
       IF t.upgradeInProgress.progress >= t.upgradeInProgress.woodRequired
       THEN [t EXCEPT !.castleLevel = @ + 1,
                      !.gold = @ + CompletionBonus]
       ELSE t

applyConstruction(s) ==
  IF ~s.upgradeInProgress.active THEN s
  ELSE LET t == BuilderLoop(s, 0) IN
       IF t.upgradeInProgress.progress >= t.upgradeInProgress.woodRequired
       THEN [t EXCEPT !.castleLevel = @ + 1,
                      !.gold = @ + CompletionBonus,
                      !.upgradeInProgress = [active |-> FALSE]]
       ELSE t

\* mutant: lost workers keep their jobs
reduceJobsByPriority_KeepJobs(jobs, workersToRemove) == jobs

\* mutant: the jobs are reduced in the opposite order, miners first
reduceJobsByPriority_MinersFirst(jobs, workersToRemove) ==
  LET minersToRemove == Min(workersToRemove, jobs.miners)
      r1 == workersToRemove - minersToRemove
      farmersToRemove == IF r1 > 0 THEN Min(r1, jobs.farmers) ELSE 0
      r2 == r1 - farmersToRemove
      lumberjacksToRemove == IF r2 > 0 THEN Min(r2, jobs.lumberjacks) ELSE 0
      r3 == r2 - lumberjacksToRemove
      buildersToRemove == IF r3 > 0 THEN Min(r3, jobs.builders) ELSE 0
  IN [miners |-> jobs.miners - minersToRemove,
      farmers |-> jobs.farmers - farmersToRemove,
      lumberjacks |-> jobs.lumberjacks - lumberjacksToRemove,
      builders |-> jobs.builders - buildersToRemove]

reduceJobsByPriority(jobs, workersToRemove) ==
  LET buildersToRemove == Min(workersToRemove, jobs.builders)
      r1 == workersToRemove - buildersToRemove
      lumberjacksToRemove == IF r1 > 0 THEN Min(r1, jobs.lumberjacks) ELSE 0
      r2 == r1 - lumberjacksToRemove
      farmersToRemove == IF r2 > 0 THEN Min(r2, jobs.farmers) ELSE 0
      r3 == r2 - farmersToRemove
      minersToRemove == IF r3 > 0 THEN Min(r3, jobs.miners) ELSE 0
  IN [miners |-> jobs.miners - minersToRemove,
      farmers |-> jobs.farmers - farmersToRemove,
      lumberjacks |-> jobs.lumberjacks - lumberjacksToRemove,
      builders |-> jobs.builders - buildersToRemove]

\* mutant: on a shortage food keeps its negative value
applyUpkeep_FoodNotReset(s) ==
  LET foodNeeded == s.workers
      food == s.food - foodNeeded
  IN IF food < 0
     THEN LET shortage == -food
              workersLost == CeilHalf(shortage)
          IN [s EXCEPT !.food = food,
                       !.workers = Max(0, s.workers - workersLost),
                       !.jobs = IF workersLost > 0
                                THEN reduceJobsByPriority(s.jobs, workersLost)
                                ELSE @]
     ELSE [s EXCEPT !.food = food]

\* mutant: the upkeep phase loses workers without reducing the jobs
applyUpkeep_JobsUntouched(s) ==
  LET foodNeeded == s.workers
      food == s.food - foodNeeded
  IN IF food < 0
     THEN LET shortage == -food
              workersLost == CeilHalf(shortage)
          IN [s EXCEPT !.food = 0,
                       !.workers = Max(0, s.workers - workersLost),
                       !.jobs = @]
     ELSE [s EXCEPT !.food = food]

\* mutant: on a shortage the engine buys the missing food itself when the gold allows
applyUpkeep_AutoBuyFood(s) ==
  LET foodNeeded == s.workers
      food == s.food - foodNeeded
  IN IF food < 0 /\ s.gold >= -food
     THEN [s EXCEPT !.food = 0, !.gold = @ + food]
     ELSE IF food < 0
     THEN LET shortage == -food
              workersLost == CeilHalf(shortage)
          IN [s EXCEPT !.food = 0,
                       !.workers = Max(0, s.workers - workersLost),
                       !.jobs = IF workersLost > 0
                                THEN reduceJobsByPriority(s.jobs, workersLost)
                                ELSE @]
     ELSE [s EXCEPT !.food = food]

applyUpkeep(s) ==
  LET foodNeeded == s.workers
      food == s.food - foodNeeded
  IN IF food < 0
     THEN LET shortage == -food
              workersLost == CeilHalf(shortage)
          IN [s EXCEPT !.food = 0,
                       !.workers = Max(0, s.workers - workersLost),
                       !.jobs = IF workersLost > 0
                                THEN reduceJobsByPriority(s.jobs, workersLost)
                                ELSE @]
     ELSE [s EXCEPT !.food = food]

applyTaxes(s) ==
  LET taxIncome == TaxRate * s.castleLevel
  IN IF taxIncome > 0 THEN [s EXCEPT !.gold = @ + taxIncome] ELSE s

clampResources(s) ==
  [s EXCEPT !.gold = Max(0, s.gold),
            !.food = Max(0, s.food),
            !.wood = Max(0, s.wood)]

\* JSON.stringify leaves out the members whose value is undefined
Stringify(entry) ==
  [f \in DOMAIN entry \
          {g \in {"requested_by", "command_id"} : entry[g] = "undefined"} |->
     entry[f]]

\* appliedLog, as the line logger.logAppliedActions writes
AppliedLog(nextTurn, applied) ==
  [turn |-> nextTurn,
   applied |-> [i \in 1..Len(applied) |-> Stringify(applied[i])]]

\* logCurrentState: the state record handed to logger.logState
StateLog(s) ==
  [turn |-> s.turn,
   state |-> [gold |-> s.gold, food |-> s.food, wood |-> s.wood,
              workers |-> s.workers, castleLevel |-> s.castleLevel,
              jobs |-> s.jobs,
              upgrade |-> IF s.upgradeInProgress.active
                          THEN [active |-> TRUE,
                                progress |-> s.upgradeInProgress.progress,
                                woodRequired |-> s.upgradeInProgress.woodRequired]
                          ELSE [active |-> FALSE]]]

(***************************************************************************)
(* tick: one whole tick, computed from the state and the queue at the      *)
(* call.  The result names the state after each numbered step of tick().   *)
(***************************************************************************)
\* mutant: the tick without its floors (upkeep leaves a negative food, the
\* clamp step is missing)
TickResult_NoFloors(s, queue) ==
  LET nextTurn == s.turn + 1
      r == applyQueuedActions(s, queue)
      afterApply == r.state
      afterTurn == [afterApply EXCEPT !.turn = nextTurn]
      afterProduction == applyProduction(afterTurn)
      afterConstruction == applyConstruction(afterProduction)
      afterUpkeep == applyUpkeep_FoodNotReset(afterConstruction)
      afterTaxes == applyTaxes(afterUpkeep)
      final == afterTaxes
  IN [evaluated |-> r.evaluated,
      afterApply |-> afterApply,
      afterProduction |-> afterProduction,
      afterConstruction |-> afterConstruction,
      afterUpkeep |-> afterUpkeep,
      afterTaxes |-> afterTaxes,
      final |-> final,
      logged |-> << AppliedLog(nextTurn, r.applied),
                    StateLog(final) >>]

\* mutant: the turn is incremented before the queued actions are applied
TickResult_TurnFirst(s, queue) ==
  LET nextTurn == s.turn + 1
      r == applyQueuedActions([s EXCEPT !.turn = nextTurn], queue)
      afterApply == r.state
      afterProduction == applyProduction(afterApply)
      afterConstruction == applyConstruction(afterProduction)
      afterUpkeep == applyUpkeep(afterConstruction)
      afterTaxes == applyTaxes(afterUpkeep)
      final == clampResources(afterTaxes)
  IN [evaluated |-> r.evaluated,
      afterApply |-> afterApply,
      afterProduction |-> afterProduction,
      afterConstruction |-> afterConstruction,
      afterUpkeep |-> afterUpkeep,
      afterTaxes |-> afterTaxes,
      final |-> final,
      logged |-> << AppliedLog(nextTurn, r.applied),
                    StateLog(final) >>]

\* mutant: the taxes are collected before the queued actions are applied
TickResult_TaxesFirst(s, queue) ==
  LET nextTurn == s.turn + 1
      r == applyQueuedActions(applyTaxes(s), queue)
      afterApply == r.state
      afterTurn == [afterApply EXCEPT !.turn = nextTurn]
      afterProduction == applyProduction(afterTurn)
      afterConstruction == applyConstruction(afterProduction)
      afterUpkeep == applyUpkeep(afterConstruction)
      afterTaxes == afterUpkeep
      final == clampResources(afterTaxes)
  IN [evaluated |-> r.evaluated,
      afterApply |-> afterApply,
      afterProduction |-> afterProduction,
      afterConstruction |-> afterConstruction,
      afterUpkeep |-> afterUpkeep,
      afterTaxes |-> afterTaxes,
      final |-> final,
      logged |-> << AppliedLog(nextTurn, r.applied),
                    StateLog(final) >>]

\* mutant: the tax is computed from the castle level before construction
TickResult_TaxOnOldLevel(s, queue) ==
  LET nextTurn == s.turn + 1
      r == applyQueuedActions(s, queue)
      afterApply == r.state
      afterTurn == [afterApply EXCEPT !.turn = nextTurn]
      afterProduction == applyProduction(afterTurn)
      afterConstruction == applyConstruction(afterProduction)
      afterUpkeep == applyUpkeep(afterConstruction)
      afterTaxes == [afterUpkeep EXCEPT
                      !.gold = @ + TaxRate * afterProduction.castleLevel]
      final == clampResources(afterTaxes)
  IN [evaluated |-> r.evaluated,
      afterApply |-> afterApply,
      afterProduction |-> afterProduction,
      afterConstruction |-> afterConstruction,
      afterUpkeep |-> afterUpkeep,
      afterTaxes |-> afterTaxes,
      final |-> final,
      logged |-> << AppliedLog(nextTurn, r.applied),
                    StateLog(final) >>]

TickResult(s, queue) ==
  LET nextTurn == s.turn + 1
      r == applyQueuedActions(s, queue)
      afterApply == r.state
      afterTurn == [afterApply EXCEPT !.turn = nextTurn]
      afterProduction == applyProduction(afterTurn)
      afterConstruction == applyConstruction(afterProduction)
      afterUpkeep == applyUpkeep(afterConstruction)
      afterTaxes == applyTaxes(afterUpkeep)
      final == clampResources(afterTaxes)
  IN [evaluated |-> r.evaluated,
      afterApply |-> afterApply,
      afterProduction |-> afterProduction,
      afterConstruction |-> afterConstruction,
      afterUpkeep |-> afterUpkeep,
      afterTaxes |-> afterTaxes,
      final |-> final,
      logged |-> << AppliedLog(nextTurn, r.applied),
                    StateLog(final) >>]

(***************************************************************************)
(* What callers send to enqueueAction.                                     *)
(***************************************************************************)
ValidInputs ==
  { Hire(Num(5)), Fire(Num(5)), BuyFood(Num(3)), StartUpgrade,
    AssignJobs(Num(2), Num(1), Num(1), Num(1)),
    AssignJobs(Num(4), Num(0), Num(3), Num(3)) }

MalformedInputs ==
  { Hire(Num(-1)), Fire(Frac(1)), BuyFood(Frac(-1)),
    AssignJobs(Num(2), Num(-1), Num(1), Num(3)),
    AssignJobs(Num(2), Frac(1), Num(1), Num(1)),
    UnknownAction }

Inputs == ValidInputs \cup MalformedInputs

\* the CLI tags what it submits with requestedBy only
FromCLI(action) ==
  [f \in DOMAIN action \cup {"requestedBy"} |->
     IF f = "requestedBy" THEN "CLI" ELSE action[f]]

\* the MCP and REST front-ends pass the caller's requested_by and command_id
FromAgent(action, requested_by, command_id) ==
  [f \in DOMAIN action \cup {"requestedBy", "commandId"} |->
     IF f = "requestedBy" THEN requested_by
     ELSE IF f = "commandId" THEN command_id
     ELSE action[f]]

TaggedInputs ==
  { Hire(Num(5)),
    FromCLI(Hire(Num(5))),
    FromAgent(Fire(Num(5)), "Accountant", "cmd-1"),
    FromAgent(BuyFood(Num(3)), "Provisioner", "cmd-2"),
    StartUpgrade,
    FromCLI(StartUpgrade),
    AssignJobs(Num(1), Num(2), Num(1), Num(1)),
    FromAgent(AssignJobs(Num(2), Num(1), Num(1), Num(1)), "Overseer", "cmd-3"),
    FromCLI(AssignJobs(Num(4), Num(0), Num(3), Num(3))) }

(***************************************************************************)
(* Init: the engine right after construction without overrides.            *)
(***************************************************************************)
Init ==
  /\ state = DefaultState
  /\ actionQueue = <<>>
  /\ tickInterval = "null"
  /\ autoTickEnabled = FALSE
  /\ liveTimers = 0
  /\ tickFrame = [phase |-> "idle"]
  /\ lastCall = [op |-> "constructor"]

(***************************************************************************)
(* enqueueAction(action)                                                   *)
(***************************************************************************)
\* { ...action, queuedAtTurn }: every field of the action is copied
QueuedAction(action, turn) ==
  [f \in DOMAIN action \cup {"queuedAtTurn"} |->
     IF f = "queuedAtTurn" THEN turn ELSE action[f]]

\* mutant: the action is pushed before it is validated
enqueueAction_PushFirst(action) ==
  /\ actionQueue' = Append(actionQueue,
                           QueuedAction(action, state.turn))
  /\ LET validationResult == validateActionParams(action) IN
     IF ~validationResult.valid
     THEN lastCall' = [op |-> "enqueueAction", action |-> action,
                       result |-> [queued |-> FALSE,
                                   error |-> validationResult.error]]
     ELSE lastCall' = [op |-> "enqueueAction", action |-> action,
                       result |-> [queued |-> TRUE,
                                   applyAtTurn |-> state.turn + 1]]
  /\ UNCHANGED <<state, tickInterval, autoTickEnabled, liveTimers>>
  /\ UNCHANGED tickFrame

enqueueAction(action) ==
  /\ LET validationResult == validateActionParams(action) IN
     IF ~validationResult.valid
     THEN /\ lastCall' = [op |-> "enqueueAction", action |-> action,
                          result |-> [queued |-> FALSE,
                                      error |-> validationResult.error]]
          /\ UNCHANGED actionQueue
     ELSE /\ actionQueue' = Append(actionQueue,
                                   QueuedAction(action, state.turn))
          /\ lastCall' = [op |-> "enqueueAction", action |-> action,
                          result |-> [queued |-> TRUE,
                                      applyAtTurn |-> state.turn + 1]]
  /\ UNCHANGED <<state, tickInterval, autoTickEnabled, liveTimers>>
  /\ UNCHANGED tickFrame

\* the engine is in use until shutdown: every front-end exits the process
\* right after calling it
Live == lastCall.op # "shutdown"

Enqueue ==
  /\ Live
  /\ state.turn < MaxTurn
  /\ Len(actionQueue) < MaxQueue
  /\ \E action \in Inputs : enqueueAction(action)

(***************************************************************************)
(* tick(), called by a front-end (manual) or by the interval timer.        *)
(***************************************************************************)
IsRejected(e) == ~e.valid
RejectedOf(evaluated) == SelectSeq(evaluated, IsRejected)

\* mutant: the rejected actions stay in the queue for the next tick
tick_KeepRejected(by) ==
  /\ LET r == TickResult(state, actionQueue) IN
       /\ state' = r.final
       /\ actionQueue' = [i \in 1..Len(RejectedOf(r.evaluated)) |->
                           RejectedOf(r.evaluated)[i].action]
       /\ lastCall' = [op |-> "tick", by |-> by,
                       before |-> state,
                       queue |-> actionQueue,
                       evaluated |-> r.evaluated,
                       afterApply |-> r.afterApply,
                       afterProduction |-> r.afterProduction,
                       afterConstruction |-> r.afterConstruction,
                       afterUpkeep |-> r.afterUpkeep,
                       afterTaxes |-> r.afterTaxes,
                       logged |-> r.logged]
  /\ UNCHANGED <<tickInterval, autoTickEnabled, liveTimers>>
  /\ UNCHANGED tickFrame

\* mutant: the queue is not cleared at the end of applyQueuedActions
tick_QueueNotCleared(by) ==
  /\ LET r == TickResult(state, actionQueue) IN
       /\ state' = r.final
       /\ lastCall' = [op |-> "tick", by |-> by,
                       before |-> state,
                       queue |-> actionQueue,
                       evaluated |-> r.evaluated,
                       afterApply |-> r.afterApply,
                       afterProduction |-> r.afterProduction,
                       afterConstruction |-> r.afterConstruction,
                       afterUpkeep |-> r.afterUpkeep,
                       afterTaxes |-> r.afterTaxes,
                       logged |-> r.logged]
  /\ UNCHANGED <<actionQueue, tickInterval, autoTickEnabled, liveTimers>>
  /\ UNCHANGED tickFrame

tick(by) ==
  /\ LET r == TickResult(state, actionQueue) IN
       /\ state' = r.final
       /\ actionQueue' = <<>>
       /\ lastCall' = [op |-> "tick", by |-> by,
                       before |-> state,
                       queue |-> actionQueue,
                       evaluated |-> r.evaluated,
                       afterApply |-> r.afterApply,
                       afterProduction |-> r.afterProduction,
                       afterConstruction |-> r.afterConstruction,
                       afterUpkeep |-> r.afterUpkeep,
                       afterTaxes |-> r.afterTaxes,
                       logged |-> r.logged]
  /\ UNCHANGED <<tickInterval, autoTickEnabled, liveTimers>>
  /\ UNCHANGED tickFrame

ManualTick == Live /\ state.turn < MaxTurn /\ tick("manual")

\* the setInterval callback of startAutoTick: any timer that was set and
\* not cleared fires
TimerTick == Live /\ state.turn < MaxTurn /\ liveTimers > 0 /\ tick("timer")

(***************************************************************************)
(* startAutoTick / stopAutoTick / shutdown.  tickInterval is the handle    *)
(* the engine holds; liveTimers counts the timers of the runtime that were *)
(* set by setInterval and not yet cleared by clearInterval.  The info      *)
(* field of lastCall is the line given to logger.logInfo.                  *)
(***************************************************************************)
\* mutant: no early return when auto-tick is already running
startAutoTick_NoGuard ==
  /\ autoTickEnabled' = TRUE
  /\ tickInterval' = "interval"
  /\ liveTimers' = liveTimers + 1
  /\ lastCall' = [op |-> "startAutoTick", info |-> "Auto-tick started"]
  /\ UNCHANGED <<state, actionQueue>>
  /\ UNCHANGED tickFrame

startAutoTick ==
  /\ IF autoTickEnabled
     THEN /\ lastCall' = [op |-> "startAutoTick",
                          info |-> "Auto-tick is already running"]
          /\ UNCHANGED <<tickInterval, autoTickEnabled, liveTimers>>
     ELSE /\ autoTickEnabled' = TRUE
          /\ tickInterval' = "interval"
          /\ liveTimers' = liveTimers + 1
          /\ lastCall' = [op |-> "startAutoTick",
                          info |-> "Auto-tick started"]
  /\ UNCHANGED <<state, actionQueue>>
  /\ UNCHANGED tickFrame

\* mutant: the handle and the flag are reset but the timer is not cleared
stopAutoTick_NoClear ==
  /\ IF tickInterval # "null"
     THEN /\ tickInterval' = "null"
          /\ autoTickEnabled' = FALSE
          /\ lastCall' = [op |-> "stopAutoTick", info |-> "Auto-tick stopped"]
     ELSE /\ lastCall' = [op |-> "stopAutoTick", info |-> "none"]
          /\ UNCHANGED <<tickInterval, autoTickEnabled>>
  /\ UNCHANGED <<state, actionQueue, liveTimers>>
  /\ UNCHANGED tickFrame

stopAutoTick ==
  /\ IF tickInterval # "null"
     THEN /\ liveTimers' = liveTimers - 1
          /\ tickInterval' = "null"
          /\ autoTickEnabled' = FALSE
          /\ lastCall' = [op |-> "stopAutoTick", info |-> "Auto-tick stopped"]
     ELSE /\ lastCall' = [op |-> "stopAutoTick", info |-> "none"]
          /\ UNCHANGED <<tickInterval, autoTickEnabled, liveTimers>>
  /\ UNCHANGED <<state, actionQueue>>
  /\ UNCHANGED tickFrame

\* shutdown: stopAutoTick, then logger.close
shutdown ==
  /\ IF tickInterval # "null"
     THEN /\ liveTimers' = liveTimers - 1
          /\ tickInterval' = "null"
          /\ autoTickEnabled' = FALSE
     ELSE UNCHANGED <<tickInterval, autoTickEnabled, liveTimers>>
  /\ lastCall' = [op |-> "shutdown"]
  /\ UNCHANGED <<state, actionQueue>>
  /\ UNCHANGED tickFrame

StartAutoTick == Live /\ startAutoTick
StopAutoTick == Live /\ stopAutoTick
Shutdown == Live /\ shutdown

Next ==
  \/ Enqueue
  \/ ManualTick
  \/ TimerTick
  \/ StartAutoTick
  \/ StopAutoTick
  \/ Shutdown

Spec == Init /\ [][Next]_vars

(***************************************************************************)
(* SpecWindow: one engine driven by well-formed submissions and manual     *)
(* ticks only, with a longer queue per inter-tick window.                  *)
(***************************************************************************)
WindowInputs ==
  ValidInputs \cup { Fire(Num(1)) }

WindowEnqueue ==
  /\ state.turn < WindowTurns
  /\ Len(actionQueue) < WindowQueue
  /\ \E action \in WindowInputs : enqueueAction(action)

WindowTick == state.turn < WindowTurns /\ tick("manual")

WindowNext == WindowEnqueue \/ WindowTick

SpecWindow == Init /\ [][WindowNext]_vars

(***************************************************************************)
(* SpecLog: one engine driven by front-ends that tag their submissions     *)
(* with provenance, and by manual ticks.                                   *)
(***************************************************************************)
LogEnqueue ==
  /\ state.turn < LogTurns
  /\ Len(actionQueue) < LogQueue
  /\ \E action \in TaggedInputs : enqueueAction(action)

LogTick == state.turn < LogTurns /\ tick("manual")

LogNext == LogEnqueue \/ LogTick

SpecLog == Init /\ [][LogNext]_vars

(***************************************************************************)
(* SpecCastle: engines constructed with an initialState (the constructor   *)
(* spreads it over the default), driven by well-formed submissions and     *)
(* manual ticks.  The overrides put the engine at a later point of a game: *)
(* an upgrade under way, a castle of level 1, a food store near its end.   *)
(***************************************************************************)
\* { ...defaults, ...initialState }
construct(initialState) ==
  [f \in DOMAIN DefaultState |->
     IF f \in DOMAIN initialState THEN initialState[f] ELSE DefaultState[f]]

Jobs(m, f, l, b) ==
  [miners |-> m, farmers |-> f, lumberjacks |-> l, builders |-> b]

Upgrade(progress, woodRequired, target) ==
  [active |-> TRUE, target |-> target, progress |-> progress,
   woodRequired |-> woodRequired]

InitialStates ==
  { [o \in {} |-> 0],
    [workers |-> 4, food |-> 1],
    [workers |-> 4, food |-> 0],
    [food |-> 0, jobs |-> Jobs(3, 0, 1, 1)],
    [food |-> 0, jobs |-> Jobs(0, 0, 1, 1)],
    [wood |-> 4, jobs |-> Jobs(1, 1, 1, 2)],
    [castleLevel |-> 1, gold |-> 22],
    [castleLevel |-> 1, food |-> 1],
    [wood |-> 3, jobs |-> Jobs(1, 1, 1, 2),
     upgradeInProgress |-> Upgrade(10, 12, 1)],
    [wood |-> 3, jobs |-> Jobs(2, 1, 1, 1),
     upgradeInProgress |-> Upgrade(10, 12, 1)],
    [wood |-> 0, jobs |-> Jobs(1, 1, 0, 3),
     upgradeInProgress |-> Upgrade(5, 12, 1)],
    [wood |-> 1, jobs |-> Jobs(0, 1, 1, 3),
     upgradeInProgress |-> Upgrade(2, 12, 1)],
    [wood |-> 5, jobs |-> Jobs(0, 1, 1, 3),
     upgradeInProgress |-> Upgrade(11, 12, 1)],
    [castleLevel |-> 1, gold |-> 30, wood |-> 2, jobs |-> Jobs(1, 1, 1, 2),
     upgradeInProgress |-> Upgrade(23, 24, 2)] }

CastleInputs ==
  { Hire(Num(1)), Fire(Num(1)), BuyFood(Num(3)), StartUpgrade,
    AssignJobs(Num(2), Num(1), Num(1), Num(1)),
    AssignJobs(Num(1), Num(1), Num(0), Num(3)) }

CastleInit ==
  /\ \E initialState \in InitialStates : state = construct(initialState)
  /\ actionQueue = <<>>
  /\ tickInterval = "null"
  /\ autoTickEnabled = FALSE
  /\ liveTimers = 0
  /\ tickFrame = [phase |-> "idle"]
  /\ lastCall = [op |-> "constructor"]

CastleEnqueue ==
  /\ state.turn < CastleTurns
  /\ Len(actionQueue) < CastleQueue
  /\ \E action \in CastleInputs : enqueueAction(action)

CastleTick == state.turn < CastleTurns /\ tick("manual")

CastleNext == CastleEnqueue \/ CastleTick

SpecCastle == CastleInit /\ [][CastleNext]_vars

(***************************************************************************)
(* SpecServer: the engine inside the event loop of the MCP HTTP server.    *)
(* Tool handlers and the interval callback are tasks of one thread; here a *)
(* tick is not one step but the sequence of the statements of tick(), and  *)
(* tickFrame is the frame of the call under way: its position, its local   *)
(* nextTurn, and the state and queue it was entered with.  A task is       *)
(* started only when no call is on the stack.                              *)
(***************************************************************************)
\* mutant: tick waits for the applied-actions log line to be written, and
\* the event loop runs other tasks meanwhile
Busy_AwaitsLogWrite == tickFrame.phase \notin {"idle", "applied"}

\* tick() is synchronous: from its entry to its return it holds the thread
Busy == tickFrame.phase # "idle"

\* getState: JSON.parse(JSON.stringify(state)), a deep copy; the state holds
\* integers and booleans only, which the round trip returns as they are
getState ==
  /\ lastCall' = [op |-> "getState", returned |-> state]
  /\ UNCHANGED <<state, actionQueue, tickInterval, autoTickEnabled,
                 liveTimers, tickFrame>>

\* the handler of the tool get_auto_tick_status
get_auto_tick_status ==
  /\ lastCall' = [op |-> "get_auto_tick_status",
                  output |-> [running |-> FALSE, interval_ms |-> 1000]]
  /\ UNCHANGED <<state, actionQueue, tickInterval, autoTickEnabled,
                 liveTimers, tickFrame>>

\* the statements of tick() in their order
NextPhase(phase) ==
  CASE phase = "applied" -> "turned"
    [] phase = "turned" -> "produced"
    [] phase = "produced" -> "built"
    [] phase = "built" -> "fed"
    [] phase = "fed" -> "taxed"
    [] phase = "taxed" -> "idle"

\* entry of tick(): nextTurn, applyQueuedActions, logAppliedActions
tickEnter(by) ==
  /\ LET r == applyQueuedActions(state, actionQueue) IN
       /\ state' = r.state
       /\ actionQueue' = <<>>
       /\ tickFrame' = [phase |-> "applied", by |-> by,
                        nextTurn |-> state.turn + 1,
                        entry |-> [state |-> state, queue |-> actionQueue]]
  /\ UNCHANGED <<tickInterval, autoTickEnabled, liveTimers, lastCall>>

\* the next statement of the tick under way; the last one is clampResources
\* with logCurrentState, after which tick returns
tickStep ==
  /\ tickFrame.phase # "idle"
  /\ state' =
       CASE tickFrame.phase = "applied" ->
              [state EXCEPT !.turn = tickFrame.nextTurn]
         [] tickFrame.phase = "turned" -> applyProduction(state)
         [] tickFrame.phase = "produced" -> applyConstruction(state)
         [] tickFrame.phase = "built" -> applyUpkeep(state)
         [] tickFrame.phase = "fed" -> applyTaxes(state)
         [] tickFrame.phase = "taxed" -> clampResources(state)
  /\ IF NextPhase(tickFrame.phase) = "idle"
     THEN /\ tickFrame' = [phase |-> "idle"]
          /\ lastCall' = [op |-> "tick returned", by |-> tickFrame.by,
                          before |-> tickFrame.entry.state,
                          queue |-> tickFrame.entry.queue]
     ELSE /\ tickFrame' = [tickFrame EXCEPT !.phase = NextPhase(@)]
          /\ UNCHANGED lastCall
  /\ UNCHANGED <<actionQueue, tickInterval, autoTickEnabled, liveTimers>>

ServerInputs == { Hire(Num(5)), BuyFood(Num(3)), StartUpgrade }

ServerEnqueue ==
  /\ ~Busy
  /\ state.turn < ServerTurns
  /\ Len(actionQueue) < ServerQueue
  /\ \E action \in ServerInputs : enqueueAction(action)

ServerGetState == ~Busy /\ getState

ServerAdvanceTick == ~Busy /\ state.turn < ServerTurns /\ tickEnter("manual")

ServerTimerTick ==
  ~Busy /\ state.turn < ServerTurns /\ liveTimers > 0 /\ tickEnter("timer")

ServerTickStep == tickStep

ServerStartAutoTick == ~Busy /\ startAutoTick

ServerStopAutoTick == ~Busy /\ stopAutoTick

ServerAutoTickStatus == ~Busy /\ get_auto_tick_status

ServerNext ==
  \/ ServerEnqueue
  \/ ServerGetState
  \/ ServerAdvanceTick
  \/ ServerTimerTick
  \/ ServerTickStep
  \/ ServerStartAutoTick
  \/ ServerStopAutoTick
  \/ ServerAutoTickStatus

SpecServer == Init /\ [][ServerNext]_vars

(***************************************************************************)
(* Reading a tick record.                                                  *)
(***************************************************************************)
TickDone == lastCall.op = "tick"
Evaluated == lastCall.evaluated
\* the live state an evaluation i of the last tick was validated against
LiveBefore(i) == IF i = 1 THEN lastCall.before ELSE Evaluated[i - 1].after
Accepted(type) ==
  \E i \in 1..Len(Evaluated) :
     Evaluated[i].valid /\ Evaluated[i].action.type = type
WorkersLostInUpkeep ==
  lastCall.afterUpkeep.workers < lastCall.afterConstruction.workers

C2_OneUpgrade ==
  TickDone =>
    /\ \A i \in 1..Len(Evaluated) :
         ( /\ Evaluated[i].action.type = "StartUpgrade"
           /\ LiveBefore(i).upgradeInProgress.active )
         => ( ~Evaluated[i].valid /\ Evaluated[i].after = LiveBefore(i) )
    /\ Cardinality({ i \in 1..Len(Evaluated) :
                       /\ Evaluated[i].valid
                       /\ Evaluated[i].action.type = "StartUpgrade" }) <= 1

\* two StartUpgrade in one tick: the first accepted, the second rejected
\* although the gold left would pay for it
C2_Witness ==
  /\ TickDone
  /\ \E i, j \in 1..Len(Evaluated) :
       /\ i < j
       /\ Evaluated[i].action.type = "StartUpgrade" /\ Evaluated[i].valid
       /\ Evaluated[j].action.type = "StartUpgrade" /\ ~Evaluated[j].valid
       /\ LiveBefore(j).gold >= 10 * (LiveBefore(j).castleLevel + 1)

(***************************************************************************)
(* C3: the actions of a tick are evaluated in priority-class order (Hire   *)
(* and Fire, then AssignJobs, then StartUpgrade, then BuyFood) whatever    *)
(* the submission order, and the actions of one class are evaluated in     *)
(* their submission order.                                                 *)
(***************************************************************************)
PriorityClass(type) ==
  CASE type \in {"Hire", "Fire"} -> 1
    [] type = "AssignJobs" -> 2
    [] type = "StartUpgrade" -> 3
    [] type = "BuyFood" -> 4

EvaluatedActions == [i \in 1..Len(Evaluated) |-> Evaluated[i].action]
InClass(c, a) == PriorityClass(a.type) = c
ClassOne(a) == InClass(1, a)
ClassTwo(a) == InClass(2, a)
ClassThree(a) == InClass(3, a)
ClassFour(a) == InClass(4, a)

Queue == lastCall.queue
IsWorkforce(a) == a.type \in {"Hire", "Fire"}
EvaluatedValid(a) ==
  /\ \E k \in 1..Len(Evaluated) : Evaluated[k].action = a
  /\ \A k \in 1..Len(Evaluated) : Evaluated[k].action = a => Evaluated[k].valid
JobsOfParams(p) ==
  [miners |-> Val(p.miners), farmers |-> Val(p.farmers),
   lumberjacks |-> Val(p.lumberjacks), builders |-> Val(p.builders)]
MatchingAssign(j, total) ==
  /\ Queue[j].type = "AssignJobs"
  /\ ParamSum(Queue[j].params) = total

AcceptedWorkforceChange(i) ==
  /\ IsWorkforce(Evaluated[i].action)
  /\ Val(Evaluated[i].action.params.count) > 0
  /\ Evaluated[i].valid
AssignForSize(j, size) ==
  /\ Evaluated[j].action.type = "AssignJobs"
  /\ ParamSum(Evaluated[j].action.params) = size
RejectedUnchanged(j) ==
  /\ ~Evaluated[j].valid
  /\ Evaluated[j].after.jobs = LiveBefore(j).jobs

C5_StaleAssignRejected ==
  TickDone =>
    \A i, j \in 1..Len(Evaluated) :
      ( AcceptedWorkforceChange(i) /\ AssignForSize(j, LiveBefore(i).workers) )
      => RejectedUnchanged(j)

(***************************************************************************)
(* C5 (amended): if a Hire(n) or Fire(n) with n > 0 is accepted in a tick, *)
(* an AssignJobs of the same tick whose counts sum to the workforce size   *)
(* from before that Hire/Fire is rejected and leaves jobs as it was,       *)
(* whatever the submission order, provided workers after all the Hire and  *)
(* Fire actions of the tick differs from that size (as it does when that   *)
(* Hire/Fire is the only one accepted in the tick).                        *)
(***************************************************************************)
C5_StaleAssignRejectedUnlessRestored ==
  TickDone =>
    \A i, j \in 1..Len(Evaluated) :
      ( /\ AcceptedWorkforceChange(i)
        /\ AssignForSize(j, LiveBefore(i).workers)
        /\ lastCall.afterApply.workers # LiveBefore(i).workers )
      => RejectedUnchanged(j)

\* an AssignJobs for the old workforce size, submitted before the Hire or
\* Fire that was then accepted, is rejected
C5_Witness ==
  /\ TickDone
  /\ Len(Queue) >= 2
  /\ Queue[1].type = "AssignJobs"
  /\ ParamSum(Queue[1].params) = lastCall.before.workers
  /\ \E i, j \in 1..Len(Evaluated) :
       /\ AcceptedWorkforceChange(i)
       /\ Evaluated[j].action = Queue[1]
       /\ AssignForSize(j, LiveBefore(i).workers)
       /\ RejectedUnchanged(j)
       /\ lastCall.afterApply.jobs = lastCall.before.jobs

(***************************************************************************)
(* C6: after every tick gold, food and wood are >= 0.                      *)
(***************************************************************************)
NonNegativeResources(s) == s.gold >= 0 /\ s.food >= 0 /\ s.wood >= 0

C6_ResourcesNonNegative ==
  TickDone => NonNegativeResources(state)

\* a tick whose upkeep asked for more food than there was
FoodShortage ==
  lastCall.afterConstruction.food < lastCall.afterConstruction.workers

C6_Witness ==
  /\ TickDone
  /\ FoodShortage
  /\ state.food = 0
  /\ state.gold >= 0 /\ state.wood >= 0

(***************************************************************************)
(* C7: the clamp step never changes anything: after the apply phase and    *)
(* after each of production, construction, upkeep and taxes, gold, food    *)
(* and wood are >= 0, so the state the clamp receives is the state it      *)
(* leaves.                                                                 *)
(***************************************************************************)
C7_ClampNeverActs ==
  TickDone =>
    /\ NonNegativeResources(lastCall.afterApply)
    /\ NonNegativeResources(lastCall.afterProduction)
    /\ NonNegativeResources(lastCall.afterConstruction)
    /\ NonNegativeResources(lastCall.afterUpkeep)
    /\ NonNegativeResources(lastCall.afterTaxes)
    /\ state = lastCall.afterTaxes

\* a tick that refused an action the gold could not pay and ran short of
\* food reaches the clamp with nothing negative
C7_Witness ==
  /\ TickDone
  /\ FoodShortage
  /\ WorkersLostInUpkeep
  /\ \E i \in 1..Len(Evaluated) :
       /\ ~Evaluated[i].valid
       /\ "need" \in DOMAIN Evaluated[i].error
       /\ Evaluated[i].error.need > Evaluated[i].error.have
  /\ lastCall.afterTaxes.food = 0
  /\ state = lastCall.afterTaxes

(***************************************************************************)
(* C8: enqueueAction admits an action exactly when it is well formed (one  *)
(* of the five kinds, every numeric parameter an integer >= 0), whatever   *)
(* the state and the queue; an AssignJobs is admitted whatever its sum;    *)
(* an admitted action is answered queued = true, applyAtTurn = turn + 1.   *)
(***************************************************************************)
EnqueueDone == lastCall.op = "enqueueAction"
NonNegativeInteger(x) == x.frac = 0 /\ x.n >= 0
WellFormed(action) ==
  \/ /\ action.type = "AssignJobs"
     /\ \A f \in {"miners", "farmers", "lumberjacks", "builders"} :
          NonNegativeInteger(action.params[f])
  \/ /\ action.type \in {"Hire", "Fire"}
     /\ NonNegativeInteger(action.params.count)
  \/ /\ action.type = "BuyFood"
     /\ NonNegativeInteger(action.params.amount)
  \/ action.type = "StartUpgrade"

C8_AdmissionSyntacticOnly ==
  EnqueueDone =>
    /\ lastCall.result.queued = WellFormed(lastCall.action)
    /\ lastCall.result.queued =>
         lastCall.result = [queued |-> TRUE, applyAtTurn |-> state.turn + 1]

\* after a tick, an AssignJobs whose counts do not sum to workers is admitted
C8_Witness ==
  /\ EnqueueDone
  /\ state.turn > 0
  /\ lastCall.action.type = "AssignJobs"
  /\ ParamSum(lastCall.action.params) # state.workers
  /\ lastCall.result = [queued |-> TRUE, applyAtTurn |-> state.turn + 1]

(***************************************************************************)
(* C9: an enqueueAction call leaves State as it was; an admitted action    *)
(* becomes the last element of the queue and the rest of the queue is      *)
(* untouched; a malformed action (negative or non-integer parameter,       *)
(* unknown kind) is answered queued = false with an error and the queue is *)
(* untouched.                                                              *)
(***************************************************************************)
C9_EnqueueStep ==
  ( lastCall'.op = "enqueueAction" )
  => /\ state' = state
     /\ IF WellFormed(lastCall'.action)
        THEN /\ lastCall'.result.queued
             /\ Len(actionQueue') = Len(actionQueue) + 1
             /\ SubSeq(actionQueue', 1, Len(actionQueue)) = actionQueue
             /\ actionQueue'[Len(actionQueue')].type = lastCall'.action.type
             /\ actionQueue'[Len(actionQueue')].params = lastCall'.action.params
        ELSE /\ ~lastCall'.result.queued
             /\ "error" \in DOMAIN lastCall'.result
             /\ actionQueue' = actionQueue

C9_EnqueueFrame == [][C9_EnqueueStep]_vars

\* a malformed action was refused while the queue held an admitted action
C9_Witness ==
  /\ EnqueueDone
  /\ ~WellFormed(lastCall.action)
  /\ ~lastCall.result.queued
  /\ "error" \in DOMAIN lastCall.result
  /\ Len(actionQueue) > 0
  /\ state.turn > 0

(***************************************************************************)
(* C10: an action admitted while turn = T is evaluated exactly once, in    *)
(* the next tick, which sets turn to T + 1, the applyAtTurn its submitter  *)
(* was told, whether the tick is manual or timer-driven; no tick evaluates *)
(* an action admitted before the tick before it.                           *)
(***************************************************************************)
Occurrences(seq, x) == Cardinality({ i \in 1..Len(seq) : seq[i] = x })

C10_EvaluatedOnceAtNextTick ==
  \* what waits in the queue was admitted since the last tick
  /\ \A i \in 1..Len(actionQueue) : actionQueue[i].queuedAtTurn = state.turn
  \* and was told the turn of the next tick
  /\ ( EnqueueDone /\ lastCall.result.queued )
       => actionQueue[Len(actionQueue)].queuedAtTurn + 1
            = lastCall.result.applyAtTurn
  \* a tick evaluates each queued action once, and nothing else, and keeps none
  /\ TickDone =>
       /\ Len(Evaluated) = Len(Queue)
       /\ \A i \in 1..Len(Queue) :
            /\ Occurrences(EvaluatedActions, Queue[i]) = Occurrences(Queue, Queue[i])
            /\ Queue[i].queuedAtTurn + 1 = state.turn
       /\ actionQueue = <<>>

\* a timer-driven second tick evaluated an action admitted at turn 1, and
\* rejected it
C10_Witness ==
  /\ TickDone
  /\ lastCall.by = "timer"
  /\ state.turn = 2
  /\ \E i \in 1..Len(Evaluated) :
       /\ Evaluated[i].action.queuedAtTurn = 1
       /\ ~Evaluated[i].valid
  /\ actionQueue = <<>>

(***************************************************************************)
(* C11: after every tick the queue is empty, whatever was accepted or      *)
(* rejected, and no later queue holds an action of an earlier window: every *)
(* queued action was enqueued at the current turn, so an action rejected   *)
(* by a tick is in no queue afterwards.                                    *)
(***************************************************************************)
C11_QueueDrained ==
  /\ TickDone => actionQueue = <<>>
  /\ \A i \in 1..Len(actionQueue) : actionQueue[i].queuedAtTurn = state.turn
  /\ TickDone =>
       \A i \in 1..Len(lastCall.queue) :
         lastCall.queue[i].queuedAtTurn = lastCall.before.turn

\* a second tick that accepted one action and rejected another
C11_Witness ==
  /\ TickDone
  /\ lastCall.before.turn = 1
  /\ \E i, j \in 1..Len(Evaluated) : Evaluated[i].valid /\ ~Evaluated[j].valid
  /\ actionQueue = <<>>

(***************************************************************************)
(* C12: an action rejected at apply time leaves the live state as it was,  *)
(* its rejection carries the action kind and a reason (for a gold failure  *)
(* the required and the available gold), and the tick goes on: every       *)
(* queued action is evaluated and turn, production, upkeep and taxes are   *)
(* applied after the loop.                                                 *)
(***************************************************************************)
GoldNeeded(live, action) ==
  CASE action.type = "Hire" -> Val(action.params.count) * HireCost
    [] action.type = "BuyFood" -> Val(action.params.amount)
    [] action.type = "StartUpgrade" ->
         UpgradeGoldFactor * (live.castleLevel + 1)
    [] OTHER -> 0

GoldFailure(live, action) ==
  /\ live.gold < GoldNeeded(live, action)
  /\ action.type = "StartUpgrade" => ~live.upgradeInProgress.active

C12_RejectionIsLocal ==
  TickDone =>
    /\ Len(Evaluated) = Len(Queue)
    /\ \A i \in 1..Len(Evaluated) :
         ~Evaluated[i].valid =>
           /\ Evaluated[i].after = LiveBefore(i)
           /\ Evaluated[i].action.type \in
                {"AssignJobs", "Hire", "Fire", "BuyFood", "StartUpgrade"}
           /\ "msg" \in DOMAIN Evaluated[i].error
           /\ GoldFailure(LiveBefore(i), Evaluated[i].action) =>
                /\ Evaluated[i].error.need =
                     GoldNeeded(LiveBefore(i), Evaluated[i].action)
                /\ Evaluated[i].error.have = LiveBefore(i).gold
    /\ state.turn = lastCall.before.turn + 1
    /\ lastCall.afterProduction.gold =
         lastCall.afterApply.gold + MinerGold * lastCall.afterApply.jobs.miners
    /\ lastCall.afterProduction.food =
         lastCall.afterApply.food + FarmerFood * lastCall.afterApply.jobs.farmers
    /\ lastCall.afterUpkeep.food =
         Max(0, lastCall.afterConstruction.food
                  - lastCall.afterConstruction.workers)
    /\ lastCall.afterTaxes.gold =
         lastCall.afterUpkeep.gold
           + TaxRate * lastCall.afterUpkeep.castleLevel
    /\ Len(lastCall.logged) = 2

\* StartUpgrade rejected for gold, and an action evaluated after it accepted
C12_Witness ==
  /\ TickDone
  /\ \E i, j \in 1..Len(Evaluated) :
       /\ i < j
       /\ ~Evaluated[i].valid
       /\ Evaluated[i].action.type = "StartUpgrade"
       /\ "need" \in DOMAIN Evaluated[i].error
       /\ Evaluated[i].error.need > Evaluated[i].error.have
       /\ Evaluated[j].valid

(***************************************************************************)
(* C16: turn is 0 after construction, every tick (manual or by the timer)  *)
(* adds exactly 1 and no other operation changes it; inside a tick the     *)
(* queued actions are applied under the old turn and production runs under *)
(* the new one.                                                            *)
(***************************************************************************)
C16_TurnStep ==
  IF lastCall'.op = "tick"
  THEN /\ state'.turn = state.turn + 1
       /\ \A i \in 1..Len(lastCall'.evaluated) :
            lastCall'.evaluated[i].after.turn = state.turn
       /\ lastCall'.afterApply.turn = state.turn
       /\ lastCall'.afterProduction.turn = state.turn + 1
  ELSE state'.turn = state.turn

C16_TurnCounts == state.turn = 0 /\ [][C16_TurnStep]_vars

\* a second tick, fired by the timer, that evaluated an action
C16_Witness ==
  /\ TickDone
  /\ lastCall.by = "timer"
  /\ state.turn = 2
  /\ Len(Evaluated) > 0

(***************************************************************************)
(* C17: an engine created without overrides starts in the documented       *)
(* default state (turn 0, gold 20, food 12, wood 0, workers 4, castle      *)
(* level 0, jobs 2/1/1/0, no active upgrade).                              *)
(***************************************************************************)
\* SPEC v0, section 2: Starting State (defaults)
DocumentedDefaultState ==
  [turn |-> 0, gold |-> 20, food |-> 12, wood |-> 0, workers |-> 4,
   castleLevel |-> 0,
   jobs |-> [miners |-> 2, farmers |-> 1, lumberjacks |-> 1, builders |-> 0],
   upgradeInProgress |-> [active |-> FALSE]]

C17_StartsInDocumentedDefault ==
  lastCall.op = "constructor" => state = DocumentedDefaultState

(***************************************************************************)
(* C18: an accepted StartUpgrade at castle level L activates an upgrade    *)
(* with progress 0 and woodRequired = 20 x (L + 1).                        *)
(***************************************************************************)
\* SPEC v0, section 6: woodRequired: 20 * (castleLevel + 1)
DocumentedWoodFactor == 20

C18_WoodRequiredTwentyPerLevel ==
  TickDone =>
    \A i \in 1..Len(Evaluated) :
      ( Evaluated[i].valid /\ Evaluated[i].action.type = "StartUpgrade" ) =>
        /\ Evaluated[i].after.upgradeInProgress.active
        /\ Evaluated[i].after.upgradeInProgress.woodRequired =
             DocumentedWoodFactor * (LiveBefore(i).castleLevel + 1)

(***************************************************************************)
(* C13: the outcome of a tick is a function of the state and of the kinds  *)
(* and params of the queued actions in submission order; the provenance    *)
(* fields never influence it.  The engine whose submissions carry no       *)
(* provenance is in the same state after the tick, accepts and rejects the *)
(* same actions at the same positions, records the same applied kinds and  *)
(* params and writes the same state record; and admission to the queue     *)
(* does not depend on the provenance either.                               *)
(***************************************************************************)
\* the same submission without requestedBy and commandId
Anonymous(action) ==
  [f \in DOMAIN action \ {"requestedBy", "commandId"} |-> action[f]]

AnonymousQueue(queue) == [i \in 1..Len(queue) |-> Anonymous(queue[i])]

ReplayAction(entry) ==
  [f \in {"type", "params"}
          \cup {g \in {"requestedBy"} : "requested_by" \in DOMAIN entry}
          \cup {g \in {"commandId"} : "command_id" \in DOMAIN entry} |->
     CASE f = "requestedBy" -> entry.requested_by
       [] f = "commandId" -> entry.command_id
       [] OTHER -> entry[f]]

AppliedRecord == lastCall.logged[1].applied

ReplayQueue ==
  [k \in 1..Len(AppliedRecord) |->
     QueuedAction(ReplayAction(AppliedRecord[k]), lastCall.before.turn)]

C14_ReplayReproducesRun ==
  TickDone =>
    LET replay == TickResult(lastCall.before, ReplayQueue) IN
    /\ \A k \in 1..Len(AppliedRecord) :
         validateActionParams(ReplayAction(AppliedRecord[k])).valid
    /\ Len(replay.evaluated) = Len(AppliedRecord)
    /\ \A i \in 1..Len(replay.evaluated) : replay.evaluated[i].valid
    /\ replay.final = state
    /\ replay.logged = lastCall.logged

\* a second tick whose queue was re-ordered by the sort, with one action
\* accepted and one rejected
C14_Witness ==
  /\ TickDone
  /\ lastCall.before.turn = 1
  /\ Len(Queue) = 2
  /\ Evaluated[1].action = Queue[2]
  /\ Len(AppliedRecord) = 1
  /\ state # lastCall.before

(***************************************************************************)
(* C15: every tick writes exactly two records, the applied-actions record  *)
(* first and the state record second, both with the new turn number; the   *)
(* applied-actions record lists the accepted actions of the tick, and only *)
(* those, in the order they were applied, each with its kind, params and   *)
(* provenance; the state record holds the state as the tick leaves it,     *)
(* after the clamp step.                                                   *)
(***************************************************************************)
IsAccepted(e) == e.valid
AcceptedOf(evaluated) == SelectSeq(evaluated, IsAccepted)

\* the entry carries the provenance of the action: a field the action has
\* is in the entry with the same value, a field it lacks is not in the entry
SameProvenance(entry, action) ==
  /\ ("requested_by" \in DOMAIN entry) = ("requestedBy" \in DOMAIN action)
  /\ "requestedBy" \in DOMAIN action =>
       entry.requested_by = action.requestedBy
  /\ ("command_id" \in DOMAIN entry) = ("commandId" \in DOMAIN action)
  /\ "commandId" \in DOMAIN action => entry.command_id = action.commandId

C15_TwoRecordsPerTick ==
  TickDone =>
    /\ Len(lastCall.logged) = 2
    /\ DOMAIN lastCall.logged[1] = {"turn", "applied"}
    /\ DOMAIN lastCall.logged[2] = {"turn", "state"}
    /\ lastCall.logged[1].turn = lastCall.before.turn + 1
    /\ lastCall.logged[2].turn = lastCall.before.turn + 1
    /\ Len(AppliedRecord) = Len(AcceptedOf(Evaluated))
    /\ \A k \in 1..Len(AppliedRecord) :
         /\ AppliedRecord[k].type = AcceptedOf(Evaluated)[k].action.type
         /\ AppliedRecord[k].params = AcceptedOf(Evaluated)[k].action.params
         /\ SameProvenance(AppliedRecord[k], AcceptedOf(Evaluated)[k].action)
    /\ lastCall.logged[2].state.gold = state.gold
    /\ lastCall.logged[2].state.food = state.food
    /\ lastCall.logged[2].state.wood = state.wood
    /\ lastCall.logged[2].state.workers = state.workers
    /\ lastCall.logged[2].state.castleLevel = state.castleLevel
    /\ lastCall.logged[2].state.jobs = state.jobs
    /\ lastCall.logged[2].state.upgrade.active = state.upgradeInProgress.active
    /\ state.upgradeInProgress.active =>
         /\ lastCall.logged[2].state.upgrade.progress =
              state.upgradeInProgress.progress
         /\ lastCall.logged[2].state.upgrade.woodRequired =
              state.upgradeInProgress.woodRequired
    /\ state = clampResources(lastCall.afterTaxes)

\* a tick with a tagged action accepted, an action rejected, and an
\* upgrade active in the state record
C15_Witness ==
  /\ TickDone
  /\ \E i \in 1..Len(Evaluated) : ~Evaluated[i].valid
  /\ \E k \in 1..Len(AppliedRecord) :
       /\ "requested_by" \in DOMAIN AppliedRecord[k]
       /\ "command_id" \notin DOMAIN AppliedRecord[k]
  /\ lastCall.logged[2].state.upgrade.active

(***************************************************************************)
(* C19: at most one auto-tick timer exists in every reachable state, and   *)
(* isAutoTickEnabled is true exactly when it exists.  startAutoTick while  *)
(* auto-tick runs sets no second timer and changes nothing; otherwise it   *)
(* sets the one timer.  A timer-driven tick is the firing of the only live *)
(* timer and is one tick: the ticks of one period are as many as the live  *)
(* timers, however often startAutoTick was called.                         *)
(***************************************************************************)
isAutoTickEnabled == autoTickEnabled

OneTimer ==
  /\ liveTimers \in {0, 1}
  /\ isAutoTickEnabled <=> liveTimers = 1
  /\ isAutoTickEnabled <=> tickInterval # "null"

StartStep == lastCall'.op = "startAutoTick"
StopStep == lastCall'.op = "stopAutoTick"
TimerTickStep == lastCall'.op = "tick" /\ lastCall'.by = "timer"

C19_Step ==
  /\ OneTimer /\ OneTimer'
  /\ ( StartStep /\ autoTickEnabled ) =>
       UNCHANGED <<state, actionQueue, tickInterval, autoTickEnabled,
                   liveTimers>>
  /\ ( StartStep /\ ~autoTickEnabled ) =>
       /\ liveTimers' = 1
       /\ autoTickEnabled'
       /\ UNCHANGED <<state, actionQueue>>
  /\ TimerTickStep =>
       /\ liveTimers = 1
       /\ state'.turn = state.turn + 1
       /\ UNCHANGED liveTimers

C19_AtMostOneTimer == [][C19_Step]_vars

\* startAutoTick called while the timer runs, after a tick and with an
\* action pending
C19_Witness ==
  /\ lastCall.op = "startAutoTick"
  /\ lastCall.info = "Auto-tick is already running"
  /\ liveTimers = 1
  /\ state.turn >= 1
  /\ actionQueue # <<>>

(***************************************************************************)
(* C20: a timer-driven tick happens only while auto-tick is running, and   *)
(* auto-tick runs only from a startAutoTick to the next stopAutoTick or    *)
(* shutdown: once stopAutoTick has returned no timer is live and the flag  *)
(* is off until startAutoTick is called again.  Stopping changes neither   *)
(* the state nor the queue, and stopAutoTick when auto-tick is not running *)
(* changes nothing.                                                        *)
(***************************************************************************)
C20_Step ==
  /\ TimerTickStep => autoTickEnabled /\ liveTimers > 0
  /\ ( autoTickEnabled' /\ ~autoTickEnabled ) => StartStep
  /\ ( liveTimers' > liveTimers ) => StartStep
  /\ ( StopStep \/ lastCall'.op = "shutdown" ) =>
       /\ UNCHANGED <<state, actionQueue>>
       /\ ~autoTickEnabled'
       /\ liveTimers' = 0
       /\ tickInterval' = "null"
  /\ ( StopStep /\ ~autoTickEnabled ) =>
       UNCHANGED <<state, actionQueue, tickInterval, autoTickEnabled,
                   liveTimers>>

C20_NoTimerTickAfterStop == [][C20_Step]_vars

\* auto-tick stopped after a tick, with an action still queued
C20_Witness ==
  /\ lastCall.op = "stopAutoTick"
  /\ lastCall.info = "Auto-tick stopped"
  /\ state.turn >= 1
  /\ actionQueue # <<>>
  /\ liveTimers = 0

(***************************************************************************)
(* C23: AssignJobs is all-or-nothing at apply time.  It is accepted        *)
(* exactly when its four counts sum to the live workers, which is the      *)
(* workers before the tick changed by the Hire and Fire actions accepted   *)
(* earlier in the tick; accepted, jobs becomes the four counts and nothing *)
(* else changes; rejected, the state is as it was.                         *)
(***************************************************************************)
\* workers gained by the accepted Hire and Fire among the first n evaluations
RECURSIVE NetHired(_)
NetHired(n) ==
  IF n = 0 THEN 0
  ELSE NetHired(n - 1)
       + ( IF ~Evaluated[n].valid THEN 0
           ELSE IF Evaluated[n].action.type = "Hire"
                THEN Val(Evaluated[n].action.params.count)
           ELSE IF Evaluated[n].action.type = "Fire"
                THEN 0 - Val(Evaluated[n].action.params.count)
           ELSE 0 )

C23_AssignJobsAllOrNothing ==
  TickDone =>
    \A i \in 1..Len(Evaluated) :
      Evaluated[i].action.type = "AssignJobs" =>
        LET live == LiveBefore(i)
            p == Evaluated[i].action.params
            sum == Val(p.miners) + Val(p.farmers)
                     + Val(p.lumberjacks) + Val(p.builders)
        IN /\ live.workers = lastCall.before.workers + NetHired(i - 1)
           /\ Evaluated[i].valid <=> sum = live.workers
           /\ Evaluated[i].valid =>
                Evaluated[i].after =
                  [live EXCEPT !.jobs = Jobs(Val(p.miners), Val(p.farmers),
                                             Val(p.lumberjacks),
                                             Val(p.builders))]
           /\ ~Evaluated[i].valid => Evaluated[i].after = live

\* after an accepted Hire, the AssignJobs for the new size is accepted and
\* the one for the old size is rejected
C23_Witness ==
  /\ TickDone
  /\ NetHired(Len(Evaluated)) > 0
  /\ \E i, j \in 1..Len(Evaluated) :
       /\ Evaluated[i].action.type = "AssignJobs" /\ Evaluated[i].valid
       /\ Evaluated[j].action.type = "AssignJobs" /\ ~Evaluated[j].valid

(***************************************************************************)
(* C24: Hire(n) is accepted exactly when the live gold is at least 5n.     *)
(* Accepted, it debits 5n gold and adds n workers at once and changes      *)
(* nothing else: the live gold a later Hire is checked against is lower by *)
(* the cost of the Hire actions accepted before it, every Hire is          *)
(* evaluated before every AssignJobs, and the upkeep of the tick charges   *)
(* food for the workforce with the hired workers in it.                    *)
(***************************************************************************)
\* gold spent by the accepted Hire actions among the first n evaluations
RECURSIVE HireSpent(_)
HireSpent(n) ==
  IF n = 0 THEN 0
  ELSE HireSpent(n - 1)
       + ( IF Evaluated[n].valid /\ Evaluated[n].action.type = "Hire"
           THEN HireCost * Val(Evaluated[n].action.params.count)
           ELSE 0 )

C25_FireAtApplyTime ==
  TickDone =>
    /\ \A i \in 1..Len(Evaluated) :
         Evaluated[i].action.type = "Fire" =>
           LET live == LiveBefore(i)
               n == Val(Evaluated[i].action.params.count)
           IN /\ Evaluated[i].valid <=> live.workers >= n
              /\ Evaluated[i].valid =>
                   Evaluated[i].after =
                     [live EXCEPT !.workers = live.workers - n]
    /\ ~Accepted("AssignJobs") =>
         /\ lastCall.afterApply.jobs = lastCall.before.jobs
         /\ lastCall.afterProduction.gold =
              lastCall.afterApply.gold
                + MinerGold * lastCall.before.jobs.miners
         /\ lastCall.afterProduction.food =
              lastCall.afterApply.food
                + FarmerFood * lastCall.before.jobs.farmers
         /\ lastCall.afterProduction.wood =
              lastCall.afterApply.wood
                + LumberjackWood * lastCall.before.jobs.lumberjacks

\* a Fire accepted and one rejected in a tick without an accepted
\* AssignJobs: more jobs are filled than there are workers, and they produce
C25_Witness ==
  /\ TickDone
  /\ ~Accepted("AssignJobs")
  /\ \E i, j \in 1..Len(Evaluated) :
       /\ Evaluated[i].action.type = "Fire" /\ Evaluated[i].valid
       /\ Evaluated[j].action.type = "Fire" /\ ~Evaluated[j].valid
  /\ JobSum(lastCall.afterApply.jobs) > lastCall.afterApply.workers
  /\ lastCall.afterProduction.gold > lastCall.afterApply.gold

(***************************************************************************)
(* C26: BuyFood(n) is accepted exactly when the live gold is at least n,   *)
(* the live gold being the gold before the tick less what the actions      *)
(* accepted earlier in the tick spent; every Hire and StartUpgrade of the  *)
(* tick is among those, wherever BuyFood stood in the queue.  Accepted,    *)
(* it debits n gold and credits n food and changes nothing else, and the   *)
(* food is there before production and upkeep.                             *)
(***************************************************************************)
\* gold spent by the actions accepted among the first n evaluations
RECURSIVE GoldSpent(_)
GoldSpent(n) ==
  IF n = 0 THEN 0
  ELSE GoldSpent(n - 1)
       + ( IF Evaluated[n].valid
           THEN GoldNeeded(LiveBefore(n), Evaluated[n].action)
           ELSE 0 )

\* food bought by the BuyFood accepted among the first n evaluations
RECURSIVE FoodBought(_)
FoodBought(n) ==
  IF n = 0 THEN 0
  ELSE FoodBought(n - 1)
       + ( IF Evaluated[n].valid /\ Evaluated[n].action.type = "BuyFood"
           THEN Val(Evaluated[n].action.params.amount)
           ELSE 0 )

C26_BuyFoodAtApplyTime ==
  TickDone =>
    /\ \A i \in 1..Len(Evaluated) :
         Evaluated[i].action.type = "BuyFood" =>
           LET live == LiveBefore(i)
               n == Val(Evaluated[i].action.params.amount)
           IN /\ \A j \in 1..Len(Evaluated) :
                   Evaluated[j].action.type \in {"Hire", "StartUpgrade"}
                     => j < i
              /\ live.gold = lastCall.before.gold - GoldSpent(i - 1)
              /\ Evaluated[i].valid <=> live.gold >= n
              /\ Evaluated[i].valid =>
                   Evaluated[i].after =
                     [live EXCEPT !.gold = live.gold - n,
                                  !.food = live.food + n]
    /\ lastCall.afterApply.food =
         lastCall.before.food + FoodBought(Len(Evaluated))
    /\ lastCall.afterProduction.food =
         lastCall.afterApply.food
           + FarmerFood * lastCall.afterApply.jobs.farmers

\* BuyFood submitted first, evaluated after the StartUpgrade and the Hire
\* submitted behind it, and rejected for the gold the Hire has spent
C26_Witness ==
  /\ TickDone
  /\ Len(Queue) = 3
  /\ Queue[1].type = "BuyFood"
  /\ Queue[2].type = "StartUpgrade"
  /\ Accepted("Hire")
  /\ ~Evaluated[3].valid
  /\ Evaluated[3].error.have < Val(Evaluated[3].action.params.amount)
  /\ lastCall.before.gold >= Val(Evaluated[3].action.params.amount)

(***************************************************************************)
(* C27: StartUpgrade is accepted exactly when no upgrade is active and the *)
(* live gold is at least 10 x (castleLevel + 1).  Accepted, it debits that *)
(* cost and makes the upgrade active with target castleLevel + 1 and       *)
(* progress 0; castleLevel, workers, jobs, food and wood stay as they are. *)
(***************************************************************************)
C27_StartUpgradeAtApplyTime ==
  TickDone =>
    \A i \in 1..Len(Evaluated) :
      Evaluated[i].action.type = "StartUpgrade" =>
        LET live == LiveBefore(i)
            after == Evaluated[i].after
            cost == UpgradeGoldFactor * (live.castleLevel + 1)
        IN /\ Evaluated[i].valid <=>
                ( ~live.upgradeInProgress.active /\ live.gold >= cost )
           /\ Evaluated[i].valid =>
                /\ after.gold = live.gold - cost
                /\ after.upgradeInProgress.active
                /\ after.upgradeInProgress.target = live.castleLevel + 1
                /\ after.upgradeInProgress.progress = 0
                /\ after.castleLevel = live.castleLevel
                /\ after.workers = live.workers
                /\ after.jobs = live.jobs
                /\ after.food = live.food
                /\ after.wood = live.wood
                /\ after.turn = live.turn

\* at castle level 1: a StartUpgrade accepted for 20 gold, and a second one
\* of the same tick rejected because the first is active
C27_Witness ==
  /\ TickDone
  /\ Len(Evaluated) = 2
  /\ lastCall.before.castleLevel = 1
  /\ Evaluated[1].action.type = "StartUpgrade" /\ Evaluated[1].valid
  /\ Evaluated[1].after.gold = lastCall.before.gold - 2 * UpgradeGoldFactor
  /\ Evaluated[2].action.type = "StartUpgrade" /\ ~Evaluated[2].valid
  /\ "need" \notin DOMAIN Evaluated[2].error

(***************************************************************************)
(* C28: the construction phase.  With no active upgrade it changes         *)
(* nothing, whatever the builders and the wood.  With an active upgrade    *)
(* the wood consumed and the progress gained are both min(builders, wood), *)
(* the wood being what production left; the gain is not capped at what the *)
(* upgrade still needs; with no wood nothing is consumed or gained.        *)
(* Workers, jobs, food and turn are untouched.                             *)
(***************************************************************************)
C28_ConstructionPhase ==
  TickDone =>
    LET P == lastCall.afterProduction
        C == lastCall.afterConstruction
        used == Min(P.jobs.builders, P.wood)
    IN /\ ~P.upgradeInProgress.active => C = P
       /\ P.upgradeInProgress.active =>
            /\ C.wood = P.wood - used
            /\ IF C.upgradeInProgress.active
               THEN /\ C.upgradeInProgress.progress =
                         P.upgradeInProgress.progress + used
                    /\ C.upgradeInProgress.woodRequired =
                         P.upgradeInProgress.woodRequired
                    /\ C.gold = P.gold
               ELSE P.upgradeInProgress.progress + used
                      >= P.upgradeInProgress.woodRequired
            /\ P.wood = 0 => C.wood = 0
            /\ C.workers = P.workers /\ C.jobs = P.jobs
            /\ C.food = P.food /\ C.turn = P.turn

\* an active upgrade one wood short, three builders and wood for all of
\* them: three wood are consumed
C28_Witness ==
  /\ TickDone
  /\ lastCall.afterProduction.upgradeInProgress.active
  /\ lastCall.afterProduction.upgradeInProgress.woodRequired
       - lastCall.afterProduction.upgradeInProgress.progress = 1
  /\ lastCall.afterProduction.jobs.builders = 3
  /\ lastCall.afterProduction.wood > 3
  /\ lastCall.afterConstruction.wood = lastCall.afterProduction.wood - 3

C30_UpkeepPhase ==
  TickDone =>
    LET C == lastCall.afterConstruction
        U == lastCall.afterUpkeep
        shortage == C.workers - C.food
        workersLost == C.workers - U.workers
    IN /\ C.food >= C.workers =>
            /\ U.food = C.food - C.workers
            /\ U.workers = C.workers
            /\ U.jobs = C.jobs
       /\ C.food < C.workers =>
            /\ U.food = 0
            /\ 2 * workersLost >= shortage
            /\ 2 * (workersLost - 1) < shortage
            /\ workersLost <= C.workers
            /\ C.workers - workersLost >= 0
       /\ U.gold = C.gold /\ U.wood = C.wood
       /\ U.castleLevel = C.castleLevel
       /\ U.upgradeInProgress = C.upgradeInProgress
       /\ U.turn = C.turn

\* workers 4 and food 3 at upkeep: one worker is lost
C30_Witness ==
  /\ TickDone
  /\ lastCall.afterConstruction.workers = 4
  /\ lastCall.afterConstruction.food = 3
  /\ lastCall.afterUpkeep.workers = 3
  /\ lastCall.afterUpkeep.food = 0

(***************************************************************************)
(* C21: a tick is atomic for every other operation.  While a tick is       *)
(* between two of its statements the only step taken is its next           *)
(* statement: no enqueueAction, no getState and no second tick, called by  *)
(* a tool or by the timer, runs in between, and the queue is not touched.  *)
(* Every state getState returns is the state at a tick boundary.  A tick   *)
(* that returns has made the transition of the whole tick from the state   *)
(* and the queue it was entered with, the same whether the timer or a tool *)
(* called it.                                                              *)
(***************************************************************************)
C21_Step ==
  /\ tickFrame.phase # "idle" =>
       /\ actionQueue' = actionQueue
       /\ tickFrame'.phase = NextPhase(tickFrame.phase)
       /\ tickFrame'.phase # "idle" =>
            /\ tickFrame'.entry = tickFrame.entry
            /\ tickFrame'.by = tickFrame.by
            /\ lastCall' = lastCall
       /\ tickFrame'.phase = "idle" =>
            /\ state' = TickResult(tickFrame.entry.state,
                                   tickFrame.entry.queue).final
            /\ actionQueue' = <<>>
            /\ lastCall'.op = "tick returned"
  /\ ( lastCall' # lastCall /\ lastCall'.op = "getState" ) =>
       /\ tickFrame.phase = "idle"
       /\ lastCall'.returned = state
       /\ state' = state
  /\ ( lastCall' # lastCall /\ lastCall'.op = "enqueueAction" ) =>
       tickFrame.phase = "idle"

C21_TickIsAtomic == [][C21_Step]_vars

\* getState called after two ticks, the second by the timer, with the timer
\* still running
C21_Witness ==
  /\ lastCall.op = "getState"
  /\ lastCall.returned.turn = 2
  /\ lastCall.returned.gold # DefaultState.gold
  /\ liveTimers = 1
  /\ tickFrame.phase = "idle"

(***************************************************************************)
(* C22: the tool get_auto_tick_status reports whether auto-tick is         *)
(* running: running = true after start_auto_tick and before the next       *)
(* stop_auto_tick, running = false otherwise.                              *)
(***************************************************************************)
C22_StatusReportsRunning ==
  lastCall.op = "get_auto_tick_status" =>
    lastCall.output.running = isAutoTickEnabled

(***************************************************************************)
(* C31: when upkeep loses k workers, job slots are removed in the order    *)
(* builders, lumberjacks, farmers, miners.  Each job loses the smaller of  *)
(* its count and what remains to remove, a job is touched only when every  *)
(* job before it in the order is 0, the total removed is the smaller of k  *)
(* and the job sum before, and no count becomes negative.  When no worker  *)
(* is lost jobs is unchanged.                                              *)
(***************************************************************************)
RemovalOrder == << "builders", "lumberjacks", "farmers", "miners" >>

\* the slots of the jobs that precede position i of the removal order
SlotsBefore(jobs, i) ==
  LET RECURSIVE Sum(_)
      Sum(j) == IF j = 0 THEN 0 ELSE jobs[RemovalOrder[j]] + Sum(j - 1)
  IN Sum(i - 1)

C31_RemovalOrder ==
  TickDone =>
    LET C == lastCall.afterConstruction.jobs
        U == lastCall.afterUpkeep.jobs
        k == lastCall.afterConstruction.workers - lastCall.afterUpkeep.workers
    IN /\ k >= 0
       /\ k = 0 => U = C
       /\ \A i \in 1..4 :
            LET job == RemovalOrder[i]
                remaining == Max(0, k - SlotsBefore(C, i))
            IN /\ C[job] - U[job] = Min(C[job], remaining)
               /\ U[job] >= 0
               /\ U[job] < C[job] =>
                    \A j \in 1..(i - 1) : U[RemovalOrder[j]] = 0
       /\ JobSum(C) - JobSum(U) = Min(k, JobSum(C))

\* three workers lost with one builder, one lumberjack, no farmer and three
\* miners: the builder, the lumberjack and one miner go
C31_Witness ==
  /\ TickDone
  /\ lastCall.afterConstruction.jobs = Jobs(3, 0, 1, 1)
  /\ lastCall.afterConstruction.workers - lastCall.afterUpkeep.workers = 3
  /\ lastCall.afterUpkeep.jobs = Jobs(2, 0, 0, 0)

UsesGold(action) == action.type \in {"Hire", "BuyFood", "StartUpgrade"}

\* the gold evaluation i should meet: the gold before the tick less the
\* costs of the actions accepted earlier in the tick
GoldAtCheck(i) == lastCall.before.gold - GoldSpent(i - 1)

\* what the tick adds to gold after the apply phase
GoldGained ==
  MinerGold * lastCall.afterApply.jobs.miners
    + (IF lastCall.afterConstruction.castleLevel
            > lastCall.afterProduction.castleLevel
       THEN CompletionBonus ELSE 0)
    + TaxRate * lastCall.afterConstruction.castleLevel

C33_IncomeAfterSpending ==
  TickDone =>
    /\ \A i \in 1..Len(Evaluated) :
         LET a == Evaluated[i].action
             need == GoldNeeded(lastCall.before, a)
         IN UsesGold(a) =>
              /\ Evaluated[i].valid =>
                   /\ GoldAtCheck(i) >= need
                   /\ Evaluated[i].after.gold = GoldAtCheck(i) - need
              /\ GoldAtCheck(i) < need => ~Evaluated[i].valid
              /\ (~Evaluated[i].valid /\ "need" \in DOMAIN Evaluated[i].error) =>
                   /\ Evaluated[i].error.have = GoldAtCheck(i)
                   /\ Evaluated[i].error.need = need
                   /\ GoldAtCheck(i) < need
              /\ (a.type # "StartUpgrade" /\ GoldAtCheck(i) >= need) =>
                   Evaluated[i].valid
    /\ lastCall.afterApply.gold =
         lastCall.before.gold - GoldSpent(Len(Evaluated))
    /\ lastCall.afterUpkeep.gold = lastCall.afterConstruction.gold
    /\ lastCall.afterTaxes =
         [lastCall.afterUpkeep EXCEPT
            !.gold = @ + TaxRate * lastCall.afterConstruction.castleLevel]
    /\ state.gold = lastCall.afterApply.gold + GoldGained

\* a castle of level 1 collects its tax in a tick that rejected an action
\* for gold which the tick's income would have covered
C33_Witness ==
  /\ TickDone
  /\ lastCall.before.castleLevel >= 1
  /\ lastCall.afterTaxes.gold > lastCall.afterUpkeep.gold
  /\ \E i \in 1..Len(Evaluated) :
       /\ ~Evaluated[i].valid
       /\ "need" \in DOMAIN Evaluated[i].error
       /\ GoldAtCheck(i) < Evaluated[i].error.need
       /\ GoldAtCheck(i) + GoldGained >= Evaluated[i].error.need

(***************************************************************************)
(* C34: the upgrade has two transitions only.  It goes from inactive to    *)
(* active only where a StartUpgrade is accepted in the apply phase of a    *)
(* tick, and from active to inactive only on completion in the             *)
(* construction phase, which adds exactly 1 to castleLevel.  castleLevel   *)
(* never goes down and changes in no other way; no operation other than a  *)
(* tick touches either.  A StartUpgrade evaluated while an upgrade is      *)
(* active is rejected and is not kept: the queue is empty after the tick.  *)
(***************************************************************************)
IsActive(s) == s.upgradeInProgress.active

\* the evaluations of the tick record c leave castleLevel alone and switch
\* the upgrade on only by an accepted StartUpgrade met while inactive
ApplyPhaseTransitions(c) ==
  \A i \in 1..Len(c.evaluated) :
     LET e == c.evaluated[i]
         live == IF i = 1 THEN c.before ELSE c.evaluated[i - 1].after
     IN /\ e.after.castleLevel = live.castleLevel
        /\ (e.action.type = "StartUpgrade" /\ IsActive(live)) => ~e.valid
        /\ IF e.valid /\ e.action.type = "StartUpgrade"
           THEN ~IsActive(live) /\ IsActive(e.after)
           ELSE e.after.upgradeInProgress = live.upgradeInProgress

ConstructionTransitions(c) ==
  LET P == c.afterProduction
      C == c.afterConstruction
  IN /\ P.upgradeInProgress = c.afterApply.upgradeInProgress
     /\ P.castleLevel = c.afterApply.castleLevel
     /\ ~IsActive(P) =>
          /\ C.upgradeInProgress = P.upgradeInProgress
          /\ C.castleLevel = P.castleLevel
     /\ IsActive(P) =>
          \/ /\ IsActive(C)
             /\ C.castleLevel = P.castleLevel
             /\ C.upgradeInProgress.target = P.upgradeInProgress.target
             /\ C.upgradeInProgress.woodRequired
                  = P.upgradeInProgress.woodRequired
          \/ /\ ~IsActive(C)
             /\ C.castleLevel = P.castleLevel + 1

C34_Step ==
  /\ lastCall'.op # "tick" =>
       /\ state'.upgradeInProgress = state.upgradeInProgress
       /\ state'.castleLevel = state.castleLevel
  /\ lastCall'.op = "tick" =>
       /\ lastCall'.before = state
       /\ ApplyPhaseTransitions(lastCall')
       /\ ConstructionTransitions(lastCall')
       /\ state'.upgradeInProgress = lastCall'.afterConstruction.upgradeInProgress
       /\ state'.castleLevel = lastCall'.afterConstruction.castleLevel
       /\ actionQueue' = <<>>
  /\ state'.castleLevel >= state.castleLevel
  /\ state'.castleLevel <= state.castleLevel + 1

C34_UpgradeTransitions == [][C34_Step]_vars

\* an upgrade completes in a tick that rejected a StartUpgrade because of it
C34_Witness ==
  /\ TickDone
  /\ IsActive(lastCall.before)
  /\ ~IsActive(state)
  /\ state.castleLevel = lastCall.before.castleLevel + 1
  /\ \E i \in 1..Len(Evaluated) :
       Evaluated[i].action.type = "StartUpgrade" /\ ~Evaluated[i].valid
  /\ actionQueue = <<>>

(***************************************************************************)
(* C35: the engine takes no action of its own.  A tick with an empty queue *)
(* evaluates and applies nothing: it hires and fires nobody, reassigns no  *)
(* job, buys no food and starts no upgrade.  Production runs on the jobs   *)
(* as they were, gold only grows (miners, completion bonus, taxes), food   *)
(* changes by the farmers' output less the upkeep, workers and jobs change *)
(* only where upkeep loses workers, castleLevel and the upgrade only       *)
(* through construction.                                                   *)
(***************************************************************************)
C35_EmptyQueueTick ==
  (TickDone /\ Queue = <<>>) =>
    LET B == lastCall.before
        P == lastCall.afterProduction
        C == lastCall.afterConstruction
        fed == B.food + FarmerFood * B.jobs.farmers
    IN /\ Evaluated = <<>>
       /\ lastCall.logged[1].applied = <<>>
       /\ lastCall.afterApply = B
       /\ P = [B EXCEPT !.turn = @ + 1,
                        !.gold = @ + MinerGold * B.jobs.miners,
                        !.food = fed,
                        !.wood = @ + LumberjackWood * B.jobs.lumberjacks]
       /\ state.gold = B.gold + GoldGained
       /\ state.food = Max(0, fed - B.workers)
       /\ state.workers <= B.workers
       /\ state.workers < B.workers => fed < B.workers
       /\ state.workers = B.workers => state.jobs = B.jobs
       /\ \A job \in DOMAIN B.jobs : state.jobs[job] <= B.jobs[job]
       /\ C.workers = B.workers /\ C.jobs = B.jobs
       /\ ~IsActive(B) =>
            /\ state.upgradeInProgress = B.upgradeInProgress
            /\ state.castleLevel = B.castleLevel
            /\ state.wood = P.wood
       /\ IsActive(B) =>
            /\ state.wood <= P.wood
            /\ P.wood - state.wood <= B.jobs.builders
       /\ state.castleLevel = C.castleLevel
       /\ state.upgradeInProgress = C.upgradeInProgress

\* an empty-queue tick with a food shortage the gold could have covered:
\* workers are lost, nothing is bought
C35_Witness ==
  /\ TickDone
  /\ Queue = <<>>
  /\ WorkersLostInUpkeep
  /\ state.jobs # lastCall.before.jobs
  /\ lastCall.before.gold >= lastCall.before.workers
  /\ state.gold >= lastCall.before.gold

(***************************************************************************)
(* C36: during the apply phase gold is >= 0 after each applied action, so  *)
(* the gold debited by the Hire, StartUpgrade and BuyFood accepted in one  *)
(* tick never exceeds the gold held at the start of that tick; and workers *)
(* is >= 0 after each applied Fire.                                        *)
(***************************************************************************)
C36_NoOverspending ==
  TickDone =>
    /\ \A i \in 1..Len(Evaluated) :
         /\ Evaluated[i].after.gold >= 0
         /\ Evaluated[i].after.workers >= 0
         /\ Evaluated[i].valid =>
              /\ Evaluated[i].after.gold
                   = LiveBefore(i).gold
                       - GoldNeeded(LiveBefore(i), Evaluated[i].action)
              /\ Evaluated[i].action.type = "Fire" =>
                   Evaluated[i].after.workers
                     = LiveBefore(i).workers
                         - Val(Evaluated[i].action.params.count)
    /\ GoldSpent(Len(Evaluated)) <= lastCall.before.gold
    /\ lastCall.afterApply.gold >= 0
    /\ lastCall.afterApply.workers >= 0

\* an accepted action spends the last gold and a later one of the same tick
\* is rejected for gold; a Fire brings workers to 0
C36_Witness ==
  /\ TickDone
  /\ \E i, j \in 1..Len(Evaluated) :
       /\ i < j
       /\ Evaluated[i].valid
       /\ UsesGold(Evaluated[i].action)
       /\ Evaluated[i].after.gold = 0
       /\ ~Evaluated[j].valid
       /\ UsesGold(Evaluated[j].action)
  /\ \E k \in 1..Len(Evaluated) :
       /\ Evaluated[k].valid
       /\ Evaluated[k].action.type = "Fire"
       /\ Evaluated[k].after.workers = 0

CompletedInTick ==
  lastCall.afterConstruction.castleLevel > lastCall.afterProduction.castleLevel

FollowingQueues(s) ==
  {<<>>} \cup
  { << QueuedAction(a, s.turn) >> :
      a \in { Hire(Num(1)), Fire(Num(1)),
              AssignJobs(Num(1), Num(1), Num(0), Num(3)) } }

\* the tick r had a builder and wood for it
CanBuild(r) ==
  r.afterProduction.jobs.builders >= 1 /\ r.afterProduction.wood >= 1

\* the tick r completed the upgrade of s
Completes(s, r) ==
  /\ ~IsActive(r.final)
  /\ r.final.castleLevel = s.castleLevel + 1

\* the tick r added to the progress of the upgrade of s
Advances(s, r) ==
  /\ IsActive(r.final)
  /\ r.final.castleLevel = s.castleLevel
  /\ r.final.upgradeInProgress.woodRequired = s.upgradeInProgress.woodRequired
  /\ r.final.upgradeInProgress.progress >= s.upgradeInProgress.progress + 1

\* every run of at most n ticks from s completes the upgrade unless one of
\* its ticks could not build
RECURSIVE CompletesWithin(_, _)
CompletesWithin(s, n) ==
  /\ n > 0
  /\ \A q \in FollowingQueues(s) :
       LET r == TickResult(s, q) IN
       CanBuild(r) => (Completes(s, r) \/ CompletesWithin(r.final, n - 1))

C39_BoundedProgress ==
  IsActive(state) =>
    LET missing == state.upgradeInProgress.woodRequired
                     - state.upgradeInProgress.progress
    IN /\ missing > 0
       /\ \A q \in FollowingQueues(state) :
            LET r == TickResult(state, q) IN
            CanBuild(r) => (Completes(state, r) \/ Advances(state, r))
       /\ missing <= Horizon => CompletesWithin(state, missing)

\* an upgrade with 2 wood missing and one builder: the first tick builds 1
\* and leaves 1 missing, with a builder and wood for the next tick
C39_Witness ==
  /\ TickDone
  /\ IsActive(lastCall.before)
  /\ lastCall.before.upgradeInProgress.woodRequired
       - lastCall.before.upgradeInProgress.progress = 2
  /\ lastCall.afterProduction.jobs.builders = 1
  /\ lastCall.afterProduction.wood >= 1
  /\ IsActive(state)
  /\ state.upgradeInProgress.woodRequired
       - state.upgradeInProgress.progress = 1
  /\ state.jobs.builders = 1
  /\ state.wood + state.jobs.lumberjacks >= 1

(***************************************************************************)
(* SpecCoast: the engine constructed with its default state and ticked     *)
(* again and again, with submissions between the ticks: a food purchase,   *)
(* which the gold covers, and a hiring far beyond the gold.  The tick is   *)
(* taken statement by statement, as in SpecServer.  Fairness: the caller   *)
(* keeps calling tick, and a tick that was entered runs to its return.     *)
(***************************************************************************)
CoastInputs == { BuyFood(Num(3)), Hire(Num(100)) }

CoastEnqueue ==
  /\ ~Busy
  /\ state.turn < CoastTurns
  /\ Len(actionQueue) < CoastQueue
  /\ \E action \in CoastInputs : enqueueAction(action)

CoastTick == ~Busy /\ state.turn < CoastTurns /\ tickEnter("manual")

CoastTickStep == tickStep

CoastNext == CoastEnqueue \/ CoastTick \/ CoastTickStep

SpecCoast ==
  Init /\ [][CoastNext]_vars /\ WF_vars(CoastTick) /\ WF_vars(CoastTickStep)

(***************************************************************************)
(* C40: the default start is not self-sustaining.  From the default        *)
(* initial state, if no action is ever accepted, repeated ticks eventually *)
(* bring workers to 0 and the four job counts to 0, and from then on a     *)
(* tick changes no field of the state except turn.                         *)
(***************************************************************************)
\* the apply phase of the tick under way accepted nothing: every accepted
\* action of CoastInputs changes gold
NoneAccepted ==
  tickFrame.phase = "applied" => state = tickFrame.entry.state

Deserted(s) ==
  /\ s.workers = 0
  /\ s.jobs = Jobs(0, 0, 0, 0)

TickReturned == lastCall.op = "tick returned" /\ ~Busy

\* a tick entered in a deserted castle that accepted nothing has changed
\* turn only
DesertedStaysPut ==
  ( /\ TickReturned
    /\ state.turn = lastCall.before.turn + 1
    /\ Deserted(lastCall.before)
    /\ applyQueuedActions(lastCall.before, lastCall.queue).applied = <<>> )
  => state = [lastCall.before EXCEPT !.turn = @ + 1]

C40_DefaultStartStarves ==
  /\ []NoneAccepted => <>[]Deserted(state)
  /\ []DesertedStaysPut

\* the castle is deserted after ticks that accepted nothing, and a further
\* tick, which rejected a submission, has left everything but turn alone
C40_Witness ==
  /\ TickReturned
  /\ state.turn = lastCall.before.turn + 1
  /\ Deserted(lastCall.before)
  /\ Deserted(state)
  /\ Len(lastCall.queue) = 1
  /\ state.gold = lastCall.before.gold
  /\ state.food = 0

====
